---- MODULE Spec2Model ----
(***************************************************************************)
(* The iteration state machine of the SDLC orchestrator                    *)
(* (src/app/orchestrator.py) over the iteration record store               *)
(* (src/app/database.py).                                                  *)
(*                                                                         *)
(* The orchestrator's entry points are coroutines of one asyncio event     *)
(* loop: a coroutine runs without interruption from one `await` of a       *)
(* gateway call to the next, and the store's operations are synchronous.   *)
(* Every action below is therefore one such uninterrupted segment: it      *)
(* starts when an inbound event arrives or a gateway call returns, and     *)
(* ends at the next gateway call or at the return of the handler.          *)
(***************************************************************************)
EXTENDS Integers, Sequences, FiniteSets, TLC

VARIABLES
    records,   \* the issue_iterations table; a row's id is its index
    tasks,     \* the handler invocations and continuations in progress
    last,      \* the invocation that returned most recently
    events,    \* inbound events delivered so far
    nextPr,    \* the hosting service's next pull-request number
    db,        \* the store operations that raise at present
    settings   \* the Settings object built when the application is loaded

vars == <<records, tasks, last, events, nextPr, db, settings>>

----------------------------------------------------------------------------
(* Bounds of the model. *)

\* inbound events (start, restart, CI completion) delivered in one behaviour
MaxEvents == 3

\* settings.max_iterations, an environment setting (MAX_ITERATIONS)
max_iterations == 3

Issues == {42}
Repo == "owner/repo"
Conclusions == {"success", "failure"}
Recommendations == {"approve", "approve_with_suggestions", "request_changes", "reject"}
Scores == {80}

----------------------------------------------------------------------------
(* IterationStatus, database.py *)

RUNNING == "running"
WAITING_CI == "waiting_ci"
REVIEWING == "reviewing"
COMPLETED == "completed"
FAILED == "failed"
CANCELLED == "cancelled"

IterationStatus == {RUNNING, WAITING_CI, REVIEWING, COMPLETED, FAILED, CANCELLED}

\* the default of Settings.max_iterations (config.py)
DefaultMaxIterations == 5

\* Settings without a default for max_iterations
SettingsWithoutDefault(environ) ==
    [max_iterations |-> IF "MAX_ITERATIONS" \in DOMAIN environ
                        THEN environ.MAX_ITERATIONS ELSE 0]

\* Settings(): a field is read from the environment variable of its name,
\* and has its default when the variable is not set
Settings(environ) ==
    [max_iterations |-> IF "MAX_ITERATIONS" \in DOMAIN environ
                        THEN environ.MAX_ITERATIONS ELSE DefaultMaxIterations]

\* Python's None in a string column; 0 stands for None in pr_number
None == "None"

\* the detached "no row" result of a query (.first() returning None)
NoIteration ==
    [id |-> 0, repo_full_name |-> Repo, issue_number |-> 0, pr_number |-> 0,
     current_iteration |-> 0, max_iterations |-> 0, status |-> None,
     branch_name |-> None, last_review_score |-> 0,
     last_review_recommendation |-> None, last_review_feedback |-> None,
     last_ci_status |-> None, last_ci_conclusion |-> None,
     completed_at |-> None, is_active |-> FALSE]

\* a row as create_iteration inserts it (column defaults included)
IssueIteration(id, repo, issue, maxIter) ==
    [id |-> id, repo_full_name |-> repo, issue_number |-> issue, pr_number |-> 0,
     current_iteration |-> 0, max_iterations |-> maxIter, status |-> RUNNING,
     branch_name |-> None, last_review_score |-> 0,
     last_review_recommendation |-> None, last_review_feedback |-> None,
     last_ci_status |-> None, last_ci_conclusion |-> None,
     completed_at |-> None, is_active |-> TRUE]

Ids(recs) == 1..Len(recs)

----------------------------------------------------------------------------
(* DatabaseManager, database.py.  Each operation is one transaction. *)

\* .first() of a filtered query: the row with the smallest id, or no row
First(recs, S) ==
    IF S = {} THEN NoIteration
    ELSE recs[CHOOSE i \in S : \A j \in S : i <= j]

\* get_active_iteration with a filter on the status in place of is_active
get_active_iteration_running_only(recs, repo, issue) ==
    First(recs, {i \in Ids(recs) : /\ recs[i].repo_full_name = repo
                                    /\ recs[i].issue_number = issue
                                    /\ recs[i].status = RUNNING})

get_active_iteration(recs, repo, issue) ==
    First(recs, {i \in Ids(recs) : /\ recs[i].repo_full_name = repo
                                    /\ recs[i].issue_number = issue
                                    /\ recs[i].is_active})

\* the lookup by PR without the is_active filter
get_iteration_by_pr_any(recs, repo, pr) ==
    First(recs, {i \in Ids(recs) : /\ recs[i].repo_full_name = repo
                                    /\ recs[i].pr_number = pr})

get_iteration_by_pr(recs, repo, pr) ==
    First(recs, {i \in Ids(recs) : /\ recs[i].repo_full_name = repo
                                    /\ recs[i].pr_number = pr
                                    /\ recs[i].is_active})

\* create_iteration without the deactivation of the existing rows
create_iteration_keep_active(recs, repo, issue, maxIter) ==
    Append(recs, IssueIteration(Len(recs) + 1, repo, issue,
                                IF maxIter # 0 THEN maxIter
                                ELSE settings.max_iterations))

\* create_iteration that deactivates every active row of the repository,
\* whatever its issue
create_iteration_any_issue(recs, repo, issue, maxIter) ==
    LET deactivated ==
            [i \in Ids(recs) |->
                IF recs[i].repo_full_name = repo /\ recs[i].is_active
                THEN [recs[i] EXCEPT !.is_active = FALSE]
                ELSE recs[i]]
    IN  Append(deactivated,
               IssueIteration(Len(recs) + 1, repo, issue,
                              IF maxIter # 0 THEN maxIter
                              ELSE settings.max_iterations))

create_iteration(recs, repo, issue, maxIter) ==
    LET deactivated ==
            [i \in Ids(recs) |->
                IF /\ recs[i].repo_full_name = repo
                   /\ recs[i].issue_number = issue
                   /\ recs[i].is_active
                THEN [recs[i] EXCEPT !.is_active = FALSE]
                ELSE recs[i]]
    IN  Append(deactivated,
               IssueIteration(Len(recs) + 1, repo, issue,
                              IF maxIter # 0 THEN maxIter    \* max_iterations or ...
                              ELSE settings.max_iterations))

\* update_iteration that inserts a row when the id is the next free one
update_iteration_or_insert(recs, id, kwargs) ==
    IF id = Len(recs) + 1
    THEN Append(recs, [k \in DOMAIN NoIteration |->
                          IF k \in DOMAIN kwargs THEN kwargs[k]
                          ELSE IF k = "id" THEN id ELSE NoIteration[k]])
    ELSE IF id \notin Ids(recs) THEN recs
    ELSE [recs EXCEPT ![id] =
            [k \in DOMAIN recs[id] |->
                IF k \in DOMAIN kwargs THEN kwargs[k] ELSE recs[id][k]]]

\* setattr for every keyword argument
update_iteration(recs, id, kwargs) ==
    IF id \notin Ids(recs) THEN recs
    ELSE [recs EXCEPT ![id] =
            [k \in DOMAIN recs[id] |->
                IF k \in DOMAIN kwargs THEN kwargs[k] ELSE recs[id][k]]]

increment_iteration(recs, id) ==
    IF id \notin Ids(recs) THEN recs
    ELSE LET n == recs[id].current_iteration + 1
         IN  IF n >= recs[id].max_iterations
             THEN [recs EXCEPT ![id].current_iteration = n,
                               ![id].status = FAILED,
                               ![id].completed_at = "set"]
             ELSE [recs EXCEPT ![id].current_iteration = n]

\* complete_iteration without the is_active = False assignment
complete_iteration_keep_active(recs, id, status) ==
    IF id \notin Ids(recs) THEN recs
    ELSE [recs EXCEPT ![id].status = status,
                      ![id].completed_at = "set"]

complete_iteration(recs, id, status) ==
    IF id \notin Ids(recs) THEN recs
    ELSE [recs EXCEPT ![id].status = status,
                      ![id].completed_at = "set",
                      ![id].is_active = FALSE]

\* the refreshed row an operation returns
Row(recs, id) == IF id \in Ids(recs) THEN recs[id] ELSE NoIteration

----------------------------------------------------------------------------
(* Handler invocations.  A task is one call of start_issue_cycle,         *)
(* restart_issue_cycle or handle_ci_completion, or one continuation        *)
(* scheduled with asyncio.create_task; its fields are the call's arguments *)
(* and local variables, pc the gateway call it is suspended at.            *)

\* dict.get(key, default)
Get(dict, key, default) == IF key \in DOMAIN dict THEN dict[key] ELSE default

\* one gateway or assistant call: its name, what it was about, its outcome
Op(op, arg, res) == [op |-> op, arg |-> arg, res |-> res]

NoReview == [absent |-> TRUE]
NoAnalysis == [absent |-> TRUE]

Task(kind, issue, pr, concl) ==
    [kind |-> kind,                 \* "start", "restart", "ci" or "code"
     pc |-> "done",
     issue_number |-> issue,        \* argument of start / restart
     pr_number |-> pr,              \* argument of handle_ci_completion
     ci_conclusion |-> concl,       \* argument of handle_ci_completion
     iteration |-> NoIteration,     \* the local, detached IssueIteration object
     review_result |-> NoReview,    \* local of _run_review_iteration
     analysis |-> NoAnalysis,       \* the plan, local of _execute_code_agent
     event |-> None,                \* formal review action posted on the PR
     posted |-> None,               \* what _post_review_results got posted
     decision |-> None,             \* status the step moved the record to
     message |-> None,              \* message given to _complete_iteration
     scheduled |-> 0,               \* continuations created by asyncio.create_task
     created |-> 0,                 \* id of the row this call created
     seen |-> 0,                    \* rows in the table when the call looked for an active one
     forced |-> 0,                  \* id of the row a restart forced to FAILED
     gw |-> FALSE,                  \* a gateway or assistant call was issued
     ops |-> <<>>,                  \* the gateway and assistant calls issued, in order
     frames |-> <<>>,               \* the call stack, innermost function first
     value |-> None,                \* result of the inner step
     ret |-> "pending",             \* return value of the call
     retId |-> 0]                   \* id of the returned IssueIteration

TaskIds == 1..Len(tasks)

\* the tasks without the one at position t
Remove(seq, t) == [i \in 1..(Len(seq) - 1) |-> IF i < t THEN seq[i] ELSE seq[i + 1]]

\* task t has run up to its next gateway call, or has returned
Settle(t, task) ==
    IF task.pc = "done"
    THEN tasks' = Remove(tasks, t) /\ last' = task
    ELSE tasks' = [tasks EXCEPT ![t] = task] /\ UNCHANGED last

\* an inbound event's handler has run up to its first gateway call, or has returned
Accept(call) ==
    /\ events' = events + 1
    /\ IF call.pc = "done"
       THEN last' = call /\ UNCHANGED tasks
       ELSE tasks' = Append(tasks, call) /\ UNCHANGED last

\* a step's outcome: the table and the task after it
Outcome(recs, task) == [recs |-> recs, task |-> task]

\* the call returns to its caller
Return(task) ==
    [task EXCEPT
        !.pc = "done",
        !.frames = <<>>,
        !.ret = CASE task.kind \in {"start", "restart"} -> "iteration"
                  [] task.kind = "ci" -> "True"
                  [] OTHER -> task.value,
        !.retId = IF task.kind \in {"start", "restart"} THEN task.created ELSE 0]

----------------------------------------------------------------------------
(* SDLCOrchestrator, orchestrator.py *)

\* The store operations that raise while the store is out of order.
StoreOps ==
    {"get_active_iteration", "create_iteration", "increment_iteration",
     "update_iteration", "complete_iteration", "get_iteration_by_pr"}

Raises(op) == op \in db

\* the try blocks without the one of _complete_iteration
GuardedButCompletion ==
    {"start_issue_cycle", "restart_issue_cycle", "handle_ci_completion",
     "_run_code_iteration", "_run_review_iteration", "_decide_next_action"}

\* The functions whose body is a try block with an "except Exception"
\* clause.  In task.frames a function's name stands for a call that is
\* inside its try block, the name followed by ":except" for a call made
\* from its except clause, which no handler of that function covers.
Guarded ==
    {"start_issue_cycle", "restart_issue_cycle", "handle_ci_completion",
     "_run_code_iteration", "_run_review_iteration", "_decide_next_action",
     "_complete_iteration"}

RECURSIVE Throw(_, _), _complete_iteration(_, _, _, _)

\* An exception is raised where the invocation stands.  It goes up the
\* call stack to the innermost try block: _complete_iteration logs it and
\* returns to its caller, which returns in turn; the three step functions
\* complete the record as FAILED with str(e) as message; the event
\* handlers return None or False.  With no try block left the exception
\* leaves the coroutine.
Throw(recs, task) ==
    IF task.frames = <<>>
    THEN Outcome(recs, [task EXCEPT !.pc = "done", !.ret = "fault"])
    ELSE LET f == Head(task.frames)
             outer == [task EXCEPT !.frames = Tail(@)]
         IN  IF f \notin Guarded THEN Throw(recs, outer)
             ELSE CASE f = "_complete_iteration" -> Outcome(recs, Return(outer))
                    [] f \in {"_run_code_iteration", "_run_review_iteration",
                              "_decide_next_action"} ->
                         _complete_iteration(recs,
                             [outer EXCEPT !.frames = <<f \o ":except">> \o @,
                                           !.value = "False"],
                             FAILED, "exception")
                    [] f = "handle_ci_completion" ->
                         Outcome(recs, [outer EXCEPT !.pc = "done", !.ret = "False",
                                                     !.frames = <<>>])
                    [] OTHER ->
                         Outcome(recs, [outer EXCEPT !.pc = "done", !.ret = None,
                                                     !.frames = <<>>])

\* _complete_iteration up to its gateway call: the store is updated first;
\* the final comment is posted only if the local object has a pr_number
_complete_iteration(recs, task, status, message) ==
    LET t1 == [task EXCEPT !.decision = status, !.message = message,
                           !.frames = <<"_complete_iteration">> \o @]
    IN  IF Raises("complete_iteration") THEN Throw(recs, t1)
        ELSE Outcome(complete_iteration(recs, task.iteration.id, status),
                     IF task.iteration.pr_number # 0
                     THEN [t1 EXCEPT !.pc = "final_comment"]
                     ELSE Return(t1))

\* _run_code_iteration with the budget test > in place of >=
_run_code_iteration_past_limit(recs, task) ==
    LET t0 == [task EXCEPT !.frames = <<"_run_code_iteration">> \o @]
        recs1 == increment_iteration(recs, task.iteration.id)
        iteration == Row(recs1, task.iteration.id)
        t1 == [t0 EXCEPT !.iteration = iteration, !.value = "False"]
    IN  IF Raises("increment_iteration") THEN Throw(recs, t0)
        ELSE IF iteration.id = 0
        THEN Outcome(recs1, Return([t0 EXCEPT !.value = "False"]))
        ELSE IF iteration.current_iteration > iteration.max_iterations
        THEN _complete_iteration(recs1, t1, FAILED, "Maximum iterations reached")
        ELSE Outcome(recs1, [t1 EXCEPT !.pc = "code_agent"])

\* _run_code_iteration without the return after the budget test
_run_code_iteration_no_stop(recs, task) ==
    LET t0 == [task EXCEPT !.frames = <<"_run_code_iteration">> \o @]
        recs1 == increment_iteration(recs, task.iteration.id)
        iteration == Row(recs1, task.iteration.id)
        t1 == [t0 EXCEPT !.iteration = iteration, !.value = "False"]
    IN  IF Raises("increment_iteration") THEN Throw(recs, t0)
        ELSE IF iteration.id = 0
        THEN Outcome(recs1, Return([t0 EXCEPT !.value = "False"]))
        ELSE IF iteration.current_iteration >= iteration.max_iterations
        THEN Outcome(complete_iteration(recs1, iteration.id, FAILED),
                     [t1 EXCEPT !.pc = "code_agent", !.decision = FAILED,
                                !.message = "Maximum iterations reached"])
        ELSE Outcome(recs1, [t1 EXCEPT !.pc = "code_agent"])

\* _run_code_iteration up to its first gateway call
_run_code_iteration(recs, task) ==
    LET t0 == [task EXCEPT !.frames = <<"_run_code_iteration">> \o @]
        recs1 == increment_iteration(recs, task.iteration.id)
        iteration == Row(recs1, task.iteration.id)
        t1 == [t0 EXCEPT !.iteration = iteration, !.value = "False"]
    IN  IF Raises("increment_iteration") THEN Throw(recs, t0)
        ELSE IF iteration.id = 0
        THEN Outcome(recs1, Return([t0 EXCEPT !.value = "False"]))
        ELSE IF iteration.current_iteration >= iteration.max_iterations
        THEN _complete_iteration(recs1, t1, FAILED, "Maximum iterations reached")
        ELSE Outcome(recs1, [t1 EXCEPT !.pc = "code_agent"])

\* the branch name _execute_code_agent works on
BranchName(issue) == "agent/issue-" \o ToString(issue)

\* a branch name that is derived anew in every run, from the issue number and
\* the pull request of the context
branch_name_of_fresh(context) ==
    BranchName(context.issue_number) \o "-" \o ToString(context.pr_number)

branch_name_of(context) ==
    IF context.branch_name # None THEN context.branch_name
    ELSE BranchName(context.issue_number)

\* start_issue_cycle up to get_issue
start_issue_cycle(issue) ==
    /\ events < MaxEvents
    /\ LET existing_iteration == get_active_iteration(records, Repo, issue)
           call == [Task("start", issue, 0, None) EXCEPT
                        !.seen = Len(records), !.frames = <<"start_issue_cycle">>]
       IN  Accept(IF Raises("get_active_iteration")
                  THEN Throw(records, call).task
                  ELSE IF existing_iteration.id # 0
                  THEN [call EXCEPT !.pc = "done", !.ret = "iteration",
                                    !.retId = existing_iteration.id,
                                    !.frames = <<>>]
                  ELSE [call EXCEPT !.pc = "get_issue"])
    /\ UNCHANGED <<records, nextPr, db, settings>>

\* restart_issue_cycle that cancels the cycle it replaces
restart_issue_cycle_cancels(issue) ==
    /\ events < MaxEvents
    /\ LET existing_iteration == get_active_iteration(records, Repo, issue)
           call == [Task("restart", issue, 0, None) EXCEPT
                        !.seen = Len(records), !.frames = <<"restart_issue_cycle">>]
       IN  IF \/ Raises("get_active_iteration")
              \/ existing_iteration.id # 0 /\ Raises("complete_iteration")
           THEN /\ Accept(Throw(records, call).task)
                /\ UNCHANGED records
           ELSE /\ records' = IF existing_iteration.id # 0
                              THEN complete_iteration(records, existing_iteration.id,
                                                      CANCELLED)
                              ELSE records
                /\ Accept([call EXCEPT !.pc = "get_issue",
                                       !.forced = existing_iteration.id])
    /\ UNCHANGED <<nextPr, db, settings>>

\* restart_issue_cycle up to get_issue
restart_issue_cycle(issue) ==
    /\ events < MaxEvents
    /\ LET existing_iteration == get_active_iteration(records, Repo, issue)
           call == [Task("restart", issue, 0, None) EXCEPT
                        !.seen = Len(records), !.frames = <<"restart_issue_cycle">>]
       IN  IF \/ Raises("get_active_iteration")
              \/ existing_iteration.id # 0 /\ Raises("complete_iteration")
           THEN /\ Accept(Throw(records, call).task)
                /\ UNCHANGED records
           ELSE /\ records' = IF existing_iteration.id # 0
                              THEN complete_iteration(records, existing_iteration.id,
                                                      FAILED)
                              ELSE records
                /\ Accept([call EXCEPT !.pc = "get_issue",
                                       !.forced = existing_iteration.id])
    /\ UNCHANGED <<nextPr, db, settings>>

\* get_issue returns or raises; on return the row is created and the first
\* code-generation step runs up to its gateway call
GetIssueReturn(t, ok) ==
    /\ tasks[t].pc = "get_issue"
    /\ LET task == [tasks[t] EXCEPT
                       !.gw = TRUE,
                       !.ops = Append(@, Op("get_issue", "",
                                             IF ok THEN "ok" ELSE "raise"))]
           recs1 == create_iteration(records, Repo, task.issue_number,
                                     settings.max_iterations)
           iteration == recs1[Len(recs1)]
           out == IF ~ok \/ Raises("create_iteration")
                  THEN Throw(records, task)
                  ELSE _run_code_iteration(recs1,
                           [task EXCEPT !.iteration = iteration,
                                        !.created = iteration.id])
       IN  /\ records' = out.recs
           /\ Settle(t, out.task)
    /\ UNCHANGED <<events, nextPr, db, settings>>

\* a continuation scheduled by _decide_next_action starts to run
ScheduledCodeIteration(t) ==
    /\ tasks[t].pc = "scheduled"
    /\ LET out == _run_code_iteration(records, tasks[t])
       IN  /\ records' = out.recs
           /\ Settle(t, out.task)
    /\ UNCHANGED <<events, nextPr, db, settings>>

----------------------------------------------------------------------------
(* _execute_code_agent and what it calls.  A run of the code agent reads   *)
(* and writes no row of the store, so the whole run is one step of the     *)
(* invocation.  What the hosting service and the assistant answer during   *)
(* the run is the record env; the calls the run issues are returned, in    *)
(* order, as a log of Op records.                                          *)

\* an exception: the status code and cause of the failure, and of
\* str(e).lower() the phrases the code looks for
NoError == [raised |-> FALSE, cause |-> "ok", phrases |-> {}]
Error(cause, phrases) == [raised |-> TRUE, cause |-> cause, phrases |-> phrases]

\* what create_branch can raise: raise_for_status renders a 422 answer as
\* "Client error '422 Unprocessable Entity' for url ...", whether the
\* reference exists already or the request was invalid for another reason;
\* the second error is one whose message quotes the service's answer
BranchErrors ==
    {Error("422 reference already exists", {"422"}),
     Error("reference already exists", {"already exists", "reference already exists"}),
     Error("422 validation failed", {"422"}),
     Error("403 forbidden", {"403"})}

\* the test _execute_code_agent applies to a failed create_branch
is_branch_conflict(e) ==
    \/ "422" \in e.phrases
    \/ "already exists" \in e.phrases
    \/ "reference already exists" \in e.phrases

\* Python's "not x" for a dict or None
Falsy(x) == "absent" \in DOMAIN x \/ DOMAIN x = {}

\* the assistant's answer to the planning request: text with a parseable
\* JSON object ("json", or "empty_json" for the object {}), text without
\* braces, text with braces that is not JSON, or no answer because the
\* call raises
Response(kind, analysis) == [kind |-> kind, analysis |-> analysis]

\* _analyze_issue_requirements that answers an unparseable text with an
\* empty plan
_analyze_issue_requirements_lenient(context, env) ==
    [analysis |-> IF env.plan.kind \in {"json", "empty_json"} THEN env.plan.analysis
                  ELSE [summary |-> ""],
     ops |-> <<Op("generate_response", "plan", env.plan.kind)>>]

\* _analyze_issue_requirements: re.search for {.*}, then json.loads
_analyze_issue_requirements(context, env) ==
    LET response == env.plan
        json_match == response.kind \in {"json", "empty_json", "bad_json"}
    IN  [analysis |-> CASE response.kind = "raise" -> NoAnalysis
                        [] ~json_match -> NoAnalysis
                        [] response.kind = "bad_json" -> NoAnalysis
                        [] OTHER -> response.analysis,
         ops |-> <<Op("generate_response", "plan", response.kind)>>]

\* _generate_file_content: None when the assistant call raises
_generate_file_content(file_path, env) ==
    LET gen == env.files[file_path].gen
    IN  [content |-> CASE gen = "ok" -> "content"
                       [] gen = "empty" -> ""
                       [] OTHER -> None,
         ops |-> <<Op("generate_response", file_path, gen)>>]

_create_file(file_path, env) ==
    LET generated == _generate_file_content(file_path, env)
        put == env.files[file_path].put
    IN  IF generated.content \in {None, ""}
        THEN [success |-> FALSE, ops |-> generated.ops]
        ELSE [success |-> put = "ok",
              ops |-> generated.ops \o <<Op("create_or_update_file", file_path, put)>>]

_modify_file(file_path, env) ==
    LET get == env.files[file_path].get
        fetch == <<Op("get_file_content", file_path, get)>>
        generated == _generate_file_content(file_path, env)
        put == env.files[file_path].put
    IN  CASE get = "raise" -> [success |-> FALSE, ops |-> fetch]
          [] get = "absent" ->
                [success |-> _create_file(file_path, env).success,
                 ops |-> fetch \o _create_file(file_path, env).ops]
          [] OTHER ->
                IF generated.content \in {None, ""}
                THEN [success |-> FALSE, ops |-> fetch \o generated.ops]
                ELSE [success |-> put = "ok",
                      ops |-> fetch \o generated.ops
                                \o <<Op("create_or_update_file", file_path, put)>>]

\* the two loops of _apply_code_changes; a file's failure is only logged
RECURSIVE ModifyEach(_, _)
ModifyEach(files, env) ==
    IF files = <<>> THEN <<>>
    ELSE _modify_file(Head(files), env).ops \o ModifyEach(Tail(files), env)

RECURSIVE CreateEach(_, _)
CreateEach(files, env) ==
    IF files = <<>> THEN <<>>
    ELSE _create_file(Head(files), env).ops \o CreateEach(Tail(files), env)

\* _apply_code_changes that reports failure when the operation on a
\* planned file has failed
_apply_code_changes_all_or_nothing(analysis, env) ==
    LET listing == <<Op("list_repository_files", "", env.list_files)>>
        modify == Get(analysis, "files_to_modify", <<>>)
        create == Get(analysis, "files_to_create", <<>>)
    IN  IF env.list_files = "raise"
        THEN [changes_applied |-> FALSE, ops |-> listing]
        ELSE [changes_applied |->
                  /\ \A i \in DOMAIN modify : _modify_file(modify[i], env).success
                  /\ \A i \in DOMAIN create : _create_file(create[i], env).success,
              ops |-> listing \o ModifyEach(modify, env) \o CreateEach(create, env)]

\* _apply_code_changes with the two loops in the other order
_apply_code_changes_create_first(analysis, env) ==
    LET listing == <<Op("list_repository_files", "", env.list_files)>>
    IN  IF env.list_files = "raise"
        THEN [changes_applied |-> FALSE, ops |-> listing]
        ELSE [changes_applied |-> TRUE,
              ops |-> listing
                        \o CreateEach(Get(analysis, "files_to_create", <<>>), env)
                        \o ModifyEach(Get(analysis, "files_to_modify", <<>>), env)]

_apply_code_changes(analysis, env) ==
    LET listing == <<Op("list_repository_files", "", env.list_files)>>
    IN  IF env.list_files = "raise"
        THEN [changes_applied |-> FALSE, ops |-> listing]
        ELSE [changes_applied |-> TRUE,
              ops |-> listing
                        \o ModifyEach(Get(analysis, "files_to_modify", <<>>), env)
                        \o CreateEach(Get(analysis, "files_to_create", <<>>), env)]

NoResult == [absent |-> TRUE]

\* _execute_code_agent that opens a pull request in every run, whether the
\* context has a pr_number or not
_execute_code_agent_always_creates(context, env, number) ==
    LET branch_name == branch_name_of(context)
        create == env.create_branch
        o1 == <<Op("get_default_branch", "", env.default_branch)>>
        o2 == o1 \o <<Op("get_branch_sha", "", env.branch_sha)>>
        o3 == o2 \o <<Op("create_branch", branch_name, create.cause)>>
        o4 == IF create.raised /\ is_branch_conflict(create)
              THEN o3 \o <<Op("update_branch", branch_name, env.update_branch)>>
              ELSE o3
        plan == _analyze_issue_requirements(context, env)
        o5 == o4 \o plan.ops
        applied == _apply_code_changes(plan.analysis, env)
        o6 == o5 \o applied.ops
        o7 == o6 \o <<Op("create_pull_request", branch_name, env.publish)>>
        none == [result |-> NoResult, analysis |-> plan.analysis, ops |-> <<>>]
    IN  IF env.default_branch = "raise"
        THEN [result |-> NoResult, analysis |-> NoAnalysis, ops |-> o1]
        ELSE IF env.branch_sha = "raise"
        THEN [result |-> NoResult, analysis |-> NoAnalysis, ops |-> o2]
        ELSE IF create.raised /\ ~is_branch_conflict(create)
        THEN [result |-> NoResult, analysis |-> NoAnalysis, ops |-> o3]
        ELSE IF Falsy(plan.analysis) THEN [none EXCEPT !.ops = o5]
        ELSE IF ~applied.changes_applied THEN [none EXCEPT !.ops = o6]
        ELSE IF env.publish = "raise" THEN [none EXCEPT !.ops = o7]
        ELSE [result |-> [branch_name |-> branch_name, pr_number |-> number,
                          analysis |-> plan.analysis],
              analysis |-> plan.analysis,
              ops |-> o7]

\* _execute_code_agent; number is the number the hosting service gives to
\* a pull request created in this run
_execute_code_agent(context, env, number) ==
    LET branch_name == branch_name_of(context)
        create == env.create_branch
        o1 == <<Op("get_default_branch", "", env.default_branch)>>
        o2 == o1 \o <<Op("get_branch_sha", "", env.branch_sha)>>
        o3 == o2 \o <<Op("create_branch", branch_name, create.cause)>>
        o4 == IF create.raised /\ is_branch_conflict(create)
              THEN o3 \o <<Op("update_branch", branch_name, env.update_branch)>>
              ELSE o3
        plan == _analyze_issue_requirements(context, env)
        o5 == o4 \o plan.ops
        applied == _apply_code_changes(plan.analysis, env)
        o6 == o5 \o applied.ops
        o7 == o6 \o <<Op(IF context.pr_number # 0 THEN "update_pull_request"
                         ELSE "create_pull_request", branch_name, env.publish)>>
        none == [result |-> NoResult, analysis |-> plan.analysis, ops |-> <<>>]
    IN  IF env.default_branch = "raise"
        THEN [result |-> NoResult, analysis |-> NoAnalysis, ops |-> o1]
        ELSE IF env.branch_sha = "raise"
        THEN [result |-> NoResult, analysis |-> NoAnalysis, ops |-> o2]
        ELSE IF create.raised /\ ~is_branch_conflict(create)
        THEN [result |-> NoResult, analysis |-> NoAnalysis, ops |-> o3]
        ELSE IF Falsy(plan.analysis) THEN [none EXCEPT !.ops = o5]
        ELSE IF ~applied.changes_applied THEN [none EXCEPT !.ops = o6]
        ELSE IF env.publish = "raise" THEN [none EXCEPT !.ops = o7]
        ELSE [result |-> [branch_name |-> branch_name,
                          pr_number |-> IF context.pr_number # 0
                                        THEN context.pr_number ELSE number,
                          analysis |-> plan.analysis],
              analysis |-> plan.analysis,
              ops |-> o7]

\* the files the plans name
Files == {"a.py", "b.py"}

\* the plans the assistant answers with
CreateOne ==
    [summary |-> "plan", files_to_modify |-> <<>>, files_to_create |-> <<"b.py">>]
ModifyAndCreate ==
    [summary |-> "plan", files_to_modify |-> <<"a.py">>, files_to_create |-> <<"b.py">>]
EmptyDict == <<>>

\* a run in which every call succeeds and the plan names one file to create
AllGood ==
    [session |-> "ok", default_branch |-> "ok", branch_sha |-> "ok",
     create_branch |-> NoError, update_branch |-> "ok",
     plan |-> Response("json", CreateOne), list_files |-> "ok",
     files |-> [f \in Files |-> [get |-> "found", gen |-> "ok", put |-> "ok"]],
     publish |-> "ok"]

\* one run for each way _run_code_iteration can go on after the code agent:
\* a result, None, and an exception of the gateway session
CoreRuns ==
    {AllGood,
     [AllGood EXCEPT !.plan = Response("no_json", NoAnalysis)],
     [AllGood EXCEPT !.session = "raise"]}

\* runs that differ in the answers to the branch, planning and publishing
\* calls
BranchRuns ==
    {[AllGood EXCEPT !.create_branch = e, !.update_branch = u,
                     !.plan = p, !.publish = q] :
        e \in BranchErrors \cup {NoError},
        u \in {"ok", "raise"},
        p \in {Response("json", CreateOne), Response("empty_json", EmptyDict),
               Response("no_json", NoAnalysis), Response("bad_json", NoAnalysis),
               Response("raise", NoAnalysis)},
        q \in {"ok", "raise"}}

\* runs that differ in the answers to the calls made before the branch is
\* created and for the files of the plan
FileRuns ==
    {[AllGood EXCEPT !.default_branch = d, !.branch_sha = s, !.list_files = l,
                     !.plan = Response("json", ModifyAndCreate),
                     !.files = [f \in Files |-> IF f = "a.py" THEN a ELSE AllGood.files[f]]] :
        d \in {"ok", "raise"}, s \in {"ok", "raise"}, l \in {"ok", "raise"},
        a \in [get : {"found", "absent", "raise"}, gen : {"ok", "empty", "raise"},
               put : {"ok", "raise"}]}

\* runs in which every operation on every planned file fails in the same way
FailedFileRuns ==
    {[AllGood EXCEPT !.plan = Response("json", ModifyAndCreate),
                     !.files = [f \in Files |-> x], !.publish = q] :
        x \in {[get |-> "raise", gen |-> "ok", put |-> "ok"],
               [get |-> "found", gen |-> "raise", put |-> "ok"],
               [get |-> "absent", gen |-> "empty", put |-> "ok"],
               [get |-> "found", gen |-> "ok", put |-> "raise"]},
        q \in {"ok", "raise"}}

AgentRuns == CoreRuns \cup BranchRuns \cup FileRuns

\* the runs that get as far as the plan, with every answer to the calls of
\* the apply step
ApplyRuns ==
    CoreRuns \cup FailedFileRuns
      \cup {env \in FileRuns : env.default_branch = "ok" /\ env.branch_sha = "ok"}

\* _execute_code_agent returns to _run_code_iteration (or the gateway
\* session raises), and _run_code_iteration runs up to its next gateway call
CodeAgentReturn(t, env) ==
    /\ tasks[t].pc = "code_agent"
    /\ UNCHANGED <<events, db, settings>>
    /\ LET iteration == tasks[t].iteration
           run == _execute_code_agent(iteration, env, nextPr)
           result == run.result
           task == [tasks[t] EXCEPT
                       !.gw = TRUE,
                       !.analysis = IF env.session = "raise" THEN @
                                    ELSE run.analysis,
                       !.ops = IF env.session = "raise"
                               THEN Append(@, Op("get_github_client", "", "raise"))
                               ELSE @ \o run.ops]
           out == CASE env.session = "raise" -> Throw(records, task)
                    [] env.session # "raise" /\ Falsy(result) ->
                         _complete_iteration(records, task, FAILED,
                                             "Code generation failed")
                    [] env.session # "raise" /\ ~Falsy(result)
                           /\ Raises("update_iteration") -> Throw(records, task)
                    [] OTHER ->
                         Outcome(update_iteration(records, iteration.id,
                                    [branch_name |-> result.branch_name,
                                     pr_number |-> result.pr_number,
                                     status |-> WAITING_CI]),
                                 Return([task EXCEPT !.value = "True",
                                                     !.decision = WAITING_CI]))
       IN  /\ records' = out.recs
           /\ Settle(t, out.task)
           /\ nextPr' = IF /\ env.session # "raise" /\ ~Falsy(result)
                           /\ iteration.pr_number = 0
                        THEN nextPr + 1 ELSE nextPr

\* the final comment of _complete_iteration is posted, or fails and is logged
FinalCommentReturn(t, ok) ==
    /\ tasks[t].pc = "final_comment"
    /\ LET task == [tasks[t] EXCEPT
                       !.gw = TRUE,
                       !.ops = Append(@, Op("create_issue_comment", "final",
                                            IF ok THEN "ok" ELSE "raise"))]
           out == IF ok THEN Outcome(records, Return(task))
                  ELSE Throw(records, task)
       IN  /\ records' = out.recs
           /\ Settle(t, out.task)
    /\ UNCHANGED <<events, nextPr, db, settings>>

----------------------------------------------------------------------------
(* The review engine's result (ReviewerAgent._perform_comprehensive_review, *)
(* called by _execute_reviewer_agent).  The shape of the assessment is the *)
(* one the specification gives in section 4.5, which is also the one the   *)
(* orchestrator reads: an overall assessment with score, status,           *)
(* recommendation and summary, and one summary per dimension.              *)

Summary(recommendation) == "summary: " \o recommendation

_perform_comprehensive_review(recommendation, score) ==
    [overall_assessment |->
        [score |-> score, status |-> "Review Completed",
         recommendation |-> recommendation, summary |-> Summary(recommendation)],
     code_quality |-> [summary |-> "code quality"],
     requirements_compliance |-> [summary |-> "requirements"],
     security_analysis |-> [summary |-> "security"]]

\* a CI consideration that discounts every score when the CI conclusion is
\* not success
_execute_reviewer_agent_any_score(context, review_result) ==
    IF context.ci_conclusion # "success"
    THEN [review_result EXCEPT
            !.overall_assessment.score = (@ * 8) \div 10,
            !.overall_assessment.summary =
                @ \o " CI failed with status: " \o context.ci_conclusion]
    ELSE review_result

\* _execute_reviewer_agent after the review: the score is discounted when
\* the CI conclusion of the review context is not success
_execute_reviewer_agent(context, review_result) ==
    IF /\ context.ci_conclusion # "success"
       /\ review_result.overall_assessment.score > 50
    THEN [review_result EXCEPT
            !.overall_assessment.score = (@ * 8) \div 10,
            !.overall_assessment.summary =
                @ \o " CI failed with status: " \o context.ci_conclusion]
    ELSE review_result

\* review_context of _run_review_iteration, built from the local object
review_context(iteration) ==
    [issue_number |-> iteration.issue_number,
     pr_number |-> iteration.pr_number,
     ci_status |-> iteration.last_ci_status,
     ci_conclusion |-> iteration.last_ci_conclusion,
     iteration |-> iteration.current_iteration]

\* the event kind chosen by the CI status in place of the CI conclusion
review_event_by_status(context, review_result) ==
    LET recommendation ==
            Get(Get(review_result, "overall_assessment", <<>>), "recommendation", "")
    IN  IF recommendation = "approve" /\ context.ci_status = "success"
        THEN "APPROVE"
        ELSE IF recommendation = "request_changes" THEN "REQUEST_CHANGES"
        ELSE "COMMENT"

\* the event kind _post_review_results gives to create_pull_request_review
review_event(context, review_result) ==
    LET recommendation ==
            Get(Get(review_result, "overall_assessment", <<>>), "recommendation", "")
    IN  IF recommendation = "approve" /\ context.ci_conclusion = "success"
        THEN "APPROVE"
        ELSE IF recommendation = "request_changes" THEN "REQUEST_CHANGES"
        ELSE "COMMENT"

\* the status tests with only the terminal statuses skipped
ci_event_skipped_terminal_only(iteration) ==
    iteration.status \notin {WAITING_CI, REVIEWING}

\* the status tests with only the REVIEWING test left
ci_event_skipped_reviewing_only(iteration) ==
    iteration.status = REVIEWING

\* the status tests of handle_ci_completion that make it skip the event
ci_event_skipped(iteration) ==
    \/ iteration.status = REVIEWING
    \/ iteration.status # WAITING_CI

\* handle_ci_completion up to the first gateway call of the review
handle_ci_completion(pr, ci_status, ci_conclusion) ==
    /\ events < MaxEvents
    /\ LET iteration == get_iteration_by_pr(records, Repo, pr)
           call == [Task("ci", 0, pr, ci_conclusion) EXCEPT
                        !.frames = <<"handle_ci_completion">>]
           found == [call EXCEPT !.iteration = iteration]
       IN  IF Raises("get_iteration_by_pr")
           THEN /\ Accept(Throw(records, call).task)
                /\ UNCHANGED records
           ELSE IF iteration.id = 0
           THEN /\ Accept([found EXCEPT !.pc = "done", !.ret = "False",
                                        !.frames = <<>>])
                /\ UNCHANGED records
           ELSE IF ci_event_skipped(iteration)
           THEN /\ Accept([found EXCEPT !.pc = "done", !.ret = "True",
                                        !.frames = <<>>])
                /\ UNCHANGED records
           ELSE IF Raises("update_iteration")
           THEN /\ Accept(Throw(records, found).task)
                /\ UNCHANGED records
           ELSE /\ records' = update_iteration(records, iteration.id,
                                 [last_ci_status |-> ci_status,
                                  last_ci_conclusion |-> ci_conclusion,
                                  status |-> REVIEWING])
                /\ Accept([found EXCEPT
                             !.pc = "review",
                             !.frames = <<"_run_review_iteration">> \o @])
    /\ UNCHANGED <<nextPr, db, settings>>

\* the review's gateway and assistant calls return: the session or a fetch
\* raises, the reviewer yields nothing, or it yields an assessment, which is
\* stored before the review is posted
ReviewReturn(t, outcome, recommendation, score) ==
    /\ tasks[t].pc = "review"
    /\ LET task == [tasks[t] EXCEPT
                       !.gw = TRUE,
                       !.ops = @ \o
                           IF outcome = "raise"
                           THEN <<Op("get_pull_request", "", "raise")>>
                           ELSE <<Op("get_pull_request", "", "ok"),
                                  Op("get_pull_request_files", "", "ok"),
                                  Op("_perform_comprehensive_review", "", outcome)>>]
           iteration == task.iteration
           review_result ==
               _execute_reviewer_agent(review_context(iteration),
                   _perform_comprehensive_review(recommendation, score))
           out == CASE outcome = "result" /\ ~Raises("update_iteration") ->
                         Outcome(update_iteration(records, iteration.id,
                                    [last_review_score |-> Get(review_result, "score", 0),
                                     last_review_recommendation |->
                                         Get(review_result, "recommendation", None),
                                     last_review_feedback |->
                                         Get(review_result, "feedback", None)]),
                                 [task EXCEPT !.review_result = review_result,
                                              !.pc = "post_review"])
                    [] outcome = "none" ->
                         _complete_iteration(records, [task EXCEPT !.value = "False"],
                                             FAILED, "Review failed")
                    [] OTHER -> Throw(records, task)
       IN  /\ records' = out.recs
           /\ Settle(t, out.task)
    /\ UNCHANGED <<events, nextPr, db, settings>>

\* the three branches of _decide_next_action
decision_of(iteration, review_result) ==
    LET overall == Get(review_result, "overall_assessment", <<>>)
        recommendation == Get(overall, "recommendation", "")
        ci_success == iteration.last_ci_conclusion = "success"
    IN  IF recommendation \in {"approve", "approve_with_suggestions"} /\ ci_success
        THEN COMPLETED
        ELSE IF /\ recommendation = "request_changes"
                /\ iteration.current_iteration < iteration.max_iterations
        THEN RUNNING
        ELSE FAILED

\* _post_review_results returns (its failures are logged, not raised), and
\* _decide_next_action runs up to its gateway call
PostReviewReturn(t, posted) ==
    /\ tasks[t].pc = "post_review"
    /\ LET iteration == tasks[t].iteration
           review_result == tasks[t].review_result
           task == [tasks[t] EXCEPT
                        !.posted = posted,
                        !.event = IF posted = "nothing" THEN None
                                  ELSE review_event(review_context(iteration),
                                                    review_result),
                        !.ops = @ \o
                            CASE posted = "nothing" ->
                                   <<Op("create_issue_comment", "review", "raise")>>
                              [] posted = "comment" ->
                                   <<Op("create_issue_comment", "review", "ok"),
                                     Op("create_pull_request_review", "", "raise")>>
                              [] OTHER ->
                                   <<Op("create_issue_comment", "review", "ok"),
                                     Op("create_pull_request_review", "", "ok")>>,
                        !.frames = <<"_decide_next_action">> \o @,
                        !.value = "True"]
           decision == decision_of(iteration, review_result)
       IN  CASE decision = COMPLETED ->
                 LET out == _complete_iteration(records, task, COMPLETED,
                                                "Code approved and CI passed")
                 IN  /\ records' = out.recs
                     /\ Settle(t, out.task)
             [] decision = RUNNING /\ ~Raises("update_iteration") ->
                 /\ records' = update_iteration(records, iteration.id,
                                                [status |-> RUNNING])
                 /\ tasks' = Append(Remove(tasks, t),
                        [Task("code", iteration.issue_number, 0, None) EXCEPT
                            !.pc = "scheduled", !.iteration = iteration,
                            !.review_result = review_result])
                 /\ last' = Return([task EXCEPT !.decision = RUNNING,
                                                !.scheduled = 1])
             [] decision = RUNNING /\ Raises("update_iteration") ->
                 LET out == Throw(records, task)
                 IN  /\ records' = out.recs
                     /\ Settle(t, out.task)
             [] OTHER ->
                 LET out == _complete_iteration(records, task, FAILED,
                                "Max iterations reached or unresolvable issues")
                 IN  /\ records' = out.recs
                     /\ Settle(t, out.task)
    /\ UNCHANGED <<events, nextPr, db, settings>>

----------------------------------------------------------------------------
Init ==
    /\ records = <<>>
    /\ tasks = <<>>
    /\ last = Task("none", 0, 0, None)
    /\ events = 0
    /\ nextPr = 1
    /\ db = {}
    /\ settings = Settings([MAX_ITERATIONS |-> max_iterations])

Next ==
    \/ \E issue \in Issues : start_issue_cycle(issue)
    \/ \E issue \in Issues : restart_issue_cycle(issue)
    \/ \E t \in TaskIds, ok \in BOOLEAN : GetIssueReturn(t, ok)
    \/ \E t \in TaskIds : ScheduledCodeIteration(t)
    \/ \E t \in TaskIds, env \in CoreRuns : CodeAgentReturn(t, env)
    \/ \E t \in TaskIds, ok \in BOOLEAN : FinalCommentReturn(t, ok)
    \/ \E pr \in 1..(nextPr - 1), c \in Conclusions :
          handle_ci_completion(pr, "completed", c)
    \/ \E t \in TaskIds, o \in {"result", "none", "raise"},
          r \in Recommendations, sc \in Scores : ReviewReturn(t, o, r, sc)
    \/ \E t \in TaskIds, p \in {"both", "comment", "nothing"} : PostReviewReturn(t, p)

Spec == Init /\ [][Next]_vars

\* The same handlers with every answer the hosting service and the
\* assistant can give to the code agent's calls, for one issue that is
\* started once and then driven by CI-completion events.
MaxAgentEvents == 2

NextAgent ==
    \/ \E issue \in Issues :
          events < MaxAgentEvents /\ start_issue_cycle(issue)
    \/ \E t \in TaskIds, ok \in BOOLEAN : GetIssueReturn(t, ok)
    \/ \E t \in TaskIds : ScheduledCodeIteration(t)
    \/ \E t \in TaskIds, env \in AgentRuns : CodeAgentReturn(t, env)
    \/ \E t \in TaskIds, ok \in BOOLEAN : FinalCommentReturn(t, ok)
    \/ \E pr \in 1..(nextPr - 1), c \in Conclusions :
          events < MaxAgentEvents /\ handle_ci_completion(pr, "completed", c)
    \/ \E t \in TaskIds, o \in {"result", "none", "raise"},
          r \in Recommendations, sc \in Scores : ReviewReturn(t, o, r, sc)
    \/ \E t \in TaskIds, p \in {"both", "comment", "nothing"} : PostReviewReturn(t, p)

SpecAgent == Init /\ [][NextAgent]_vars

\* The same for the answers to the calls of the apply step.
MaxApplyEvents == 2

NextApply ==
    \/ \E issue \in Issues :
          events < MaxApplyEvents /\ start_issue_cycle(issue)
    \/ \E t \in TaskIds, ok \in BOOLEAN : GetIssueReturn(t, ok)
    \/ \E t \in TaskIds : ScheduledCodeIteration(t)
    \/ \E t \in TaskIds, env \in ApplyRuns : CodeAgentReturn(t, env)
    \/ \E t \in TaskIds, ok \in BOOLEAN : FinalCommentReturn(t, ok)
    \/ \E pr \in 1..(nextPr - 1), c \in Conclusions :
          events < MaxApplyEvents /\ handle_ci_completion(pr, "completed", c)
    \/ \E t \in TaskIds, o \in {"result", "none", "raise"},
          r \in Recommendations, sc \in Scores : ReviewReturn(t, o, r, sc)
    \/ \E t \in TaskIds, p \in {"both", "comment", "nothing"} : PostReviewReturn(t, p)

SpecApply == Init /\ [][NextApply]_vars

\* The same handlers with a store that can go out of order between any two
\* steps: no operation raises, one operation raises, or all of them do.
MaxFaultEvents == 2

Faults == {{}} \cup {{op} : op \in StoreOps} \cup {StoreOps}

StoreFault(S) ==
    /\ db # S
    /\ db' = S
    /\ UNCHANGED <<records, tasks, last, events, nextPr, settings>>

NextFaults ==
    \/ \E S \in Faults : StoreFault(S)
    \/ \E issue \in Issues :
          events < MaxFaultEvents /\ start_issue_cycle(issue)
    \/ \E issue \in Issues :
          events < MaxFaultEvents /\ restart_issue_cycle(issue)
    \/ \E t \in TaskIds, ok \in BOOLEAN : GetIssueReturn(t, ok)
    \/ \E t \in TaskIds : ScheduledCodeIteration(t)
    \/ \E t \in TaskIds, env \in CoreRuns : CodeAgentReturn(t, env)
    \/ \E t \in TaskIds, ok \in BOOLEAN : FinalCommentReturn(t, ok)
    \/ \E pr \in 1..(nextPr - 1), c \in Conclusions :
          events < MaxFaultEvents /\ handle_ci_completion(pr, "completed", c)
    \/ \E t \in TaskIds, o \in {"result", "none", "raise"},
          r \in Recommendations, sc \in Scores : ReviewReturn(t, o, r, sc)
    \/ \E t \in TaskIds, p \in {"both", "comment", "nothing"} : PostReviewReturn(t, p)

SpecFaults == Init /\ [][NextFaults]_vars

\* The same handlers in a deployment that sets MAX_ITERATIONS and in one
\* that does not.
MaxConfigEvents == 2

InitConfig ==
    /\ records = <<>>
    /\ tasks = <<>>
    /\ last = Task("none", 0, 0, None)
    /\ events = 0
    /\ nextPr = 1
    /\ db = {}
    /\ settings \in {Settings([MAX_ITERATIONS |-> max_iterations]),
                      Settings([PATH |-> "/usr/bin"])}

NextConfig ==
    \/ \E issue \in Issues :
          events < MaxConfigEvents /\ start_issue_cycle(issue)
    \/ \E issue \in Issues :
          events < MaxConfigEvents /\ restart_issue_cycle(issue)
    \/ \E t \in TaskIds, ok \in BOOLEAN : GetIssueReturn(t, ok)
    \/ \E t \in TaskIds : ScheduledCodeIteration(t)
    \/ \E t \in TaskIds, env \in CoreRuns : CodeAgentReturn(t, env)
    \/ \E t \in TaskIds, ok \in BOOLEAN : FinalCommentReturn(t, ok)
    \/ \E pr \in 1..(nextPr - 1), c \in Conclusions :
          events < MaxConfigEvents /\ handle_ci_completion(pr, "completed", c)
    \/ \E t \in TaskIds, o \in {"result", "none", "raise"},
          r \in Recommendations, sc \in Scores : ReviewReturn(t, o, r, sc)
    \/ \E t \in TaskIds, p \in {"both", "comment", "nothing"} : PostReviewReturn(t, p)

SpecConfig == InitConfig /\ [][NextConfig]_vars
----------------------------------------------------------------------------
(* The store on its own: its operations are called with every id, those   *)
(* of rows that exist and those of rows that do not, and the call and the  *)
(* row it returned are kept in last.                                       *)

\* rows the table holds at most
MaxRows == 1

\* a call of a store operation with its id argument and the row it returned
StoreCall(op, id, result) == [kind |-> op, id |-> id, result |-> result]

\* the keyword arguments the orchestrator passes to update_iteration
Kwargs ==
    {[branch_name |-> BranchName(42), pr_number |-> 1, status |-> WAITING_CI],
     [status |-> RUNNING]}

StoreCreate(issue) ==
    /\ Len(records) < MaxRows
    /\ records' = create_iteration(records, Repo, issue, settings.max_iterations)
    /\ last' = StoreCall("create_iteration", Len(records'), records'[Len(records')])
    /\ UNCHANGED <<tasks, events, nextPr, db, settings>>

StoreUpdate(id, kwargs) ==
    /\ records' = update_iteration(records, id, kwargs)
    /\ last' = StoreCall("update_iteration", id, Row(records', id))
    /\ UNCHANGED <<tasks, events, nextPr, db, settings>>

StoreIncrement(id) ==
    /\ id \in Ids(records) => records[id].current_iteration < max_iterations
    /\ records' = increment_iteration(records, id)
    /\ last' = StoreCall("increment_iteration", id, Row(records', id))
    /\ UNCHANGED <<tasks, events, nextPr, db, settings>>

StoreComplete(id, status) ==
    /\ records' = complete_iteration(records, id, status)
    /\ last' = StoreCall("complete_iteration", id, Row(records', id))
    /\ UNCHANGED <<tasks, events, nextPr, db, settings>>

NextStore ==
    \/ \E issue \in Issues : StoreCreate(issue)
    \/ \E id \in 0..(MaxRows + 1), kwargs \in Kwargs : StoreUpdate(id, kwargs)
    \/ \E id \in 0..(MaxRows + 1) : StoreIncrement(id)
    \/ \E id \in 0..(MaxRows + 1), status \in {COMPLETED, FAILED} :
          StoreComplete(id, status)

SpecStore == Init /\ [][NextStore]_vars

----------------------------------------------------------------------------
(* The CI consideration of _execute_reviewer_agent on its own: `last` holds
   one call, its review context, the assessment the reviewer generated and,
   once the consideration has run, the assessment that is returned. *)

\* raw scores are the multiples of 5 up to 5 * MaxScoreSteps, for which
\* score * 0.8 is a whole number
MaxScoreSteps == 20

ReviewScores == {5 * k : k \in 0..MaxScoreSteps}

\* last_ci_conclusion of the record the context is built from (None before
\* any CI result)
ContextConclusions == Conclusions \cup {None}

InitReview ==
    /\ records = <<>>
    /\ tasks = <<>>
    /\ \E ci_conclusion \in ContextConclusions,
          recommendation \in Recommendations, score \in ReviewScores :
          last = [kind |-> "generated",
                  context |-> [ci_conclusion |-> ci_conclusion],
                  review_result |->
                      _perform_comprehensive_review(recommendation, score)]
    /\ events = 0
    /\ nextPr = 1
    /\ db = {}
    /\ settings = Settings([MAX_ITERATIONS |-> max_iterations])

CiConsideration ==
    /\ last.kind = "generated"
    /\ last' = [kind |-> "returned",
                context |-> last.context,
                generated |-> last.review_result,
                review_result |->
                    _execute_reviewer_agent(last.context, last.review_result)]
    /\ UNCHANGED <<records, tasks, events, nextPr, db, settings>>

NextReview == CiConsideration

SpecReview == InitReview /\ [][NextReview]_vars

----------------------------------------------------------------------------
(* The cycle of an issue under every iteration budget: the environment
   sets MAX_ITERATIONS to any value from 1 up to max_iterations, and the
   issue is started (not restarted) any number of times. *)

MaxBudgetEvents == 3

InitBudget ==
    /\ records = <<>>
    /\ tasks = <<>>
    /\ last = Task("none", 0, 0, None)
    /\ events = 0
    /\ nextPr = 1
    /\ db = {}
    /\ settings \in {Settings([MAX_ITERATIONS |-> n]) : n \in 1..max_iterations}

NextBudget ==
    \/ \E issue \in Issues :
          events < MaxBudgetEvents /\ start_issue_cycle(issue)
    \/ \E t \in TaskIds, ok \in BOOLEAN : GetIssueReturn(t, ok)
    \/ \E t \in TaskIds : ScheduledCodeIteration(t)
    \/ \E t \in TaskIds, env \in CoreRuns : CodeAgentReturn(t, env)
    \/ \E t \in TaskIds, ok \in BOOLEAN : FinalCommentReturn(t, ok)
    \/ \E pr \in 1..(nextPr - 1), c \in Conclusions :
          events < MaxBudgetEvents /\ handle_ci_completion(pr, "completed", c)
    \/ \E t \in TaskIds, o \in {"result", "none", "raise"},
          r \in Recommendations, sc \in Scores : ReviewReturn(t, o, r, sc)
    \/ \E t \in TaskIds, p \in {"both", "comment", "nothing"} : PostReviewReturn(t, p)

SpecBudget == InitBudget /\ [][NextBudget]_vars

----------------------------------------------------------------------------
(* Two issues of one repository, whose handlers interleave.  The cycle of
   issue 43 has been started before and waits for the CI result of its
   pull request; starts, restarts and CI completions of both issues follow. *)

MaxIssueEvents == 2

TwoIssues == {42, 43}

InitIssues ==
    /\ records =
          update_iteration(
              increment_iteration(
                  create_iteration(<<>>, Repo, 43, max_iterations), 1),
              1, [branch_name |-> BranchName(43), pr_number |-> 1,
                  status |-> WAITING_CI])
    /\ tasks = <<>>
    /\ last = Task("none", 0, 0, None)
    /\ events = 0
    /\ nextPr = 2
    /\ db = {}
    /\ settings = Settings([MAX_ITERATIONS |-> max_iterations])

NextIssues ==
    \/ \E issue \in TwoIssues :
          events < MaxIssueEvents /\ start_issue_cycle(issue)
    \/ \E issue \in TwoIssues :
          events < MaxIssueEvents /\ restart_issue_cycle(issue)
    \/ \E t \in TaskIds, ok \in BOOLEAN : GetIssueReturn(t, ok)
    \/ \E t \in TaskIds : ScheduledCodeIteration(t)
    \/ \E t \in TaskIds, env \in CoreRuns : CodeAgentReturn(t, env)
    \/ \E t \in TaskIds, ok \in BOOLEAN : FinalCommentReturn(t, ok)
    \/ \E pr \in 1..(nextPr - 1), c \in Conclusions :
          events < MaxIssueEvents /\ handle_ci_completion(pr, "completed", c)
    \/ \E t \in TaskIds, o \in {"result", "none", "raise"},
          r \in Recommendations, sc \in Scores : ReviewReturn(t, o, r, sc)
    \/ \E t \in TaskIds, p \in {"both", "comment", "nothing"} : PostReviewReturn(t, p)

SpecIssues == InitIssues /\ [][NextIssues]_vars

----------------------------------------------------------------------------
(* Properties *)

Terminal(r) == r.status \in {COMPLETED, FAILED}

SameIssue(r1, r2) ==
    r1.repo_full_name = r2.repo_full_name /\ r1.issue_number = r2.issue_number

\* the invocations in progress and the one that returned last
Invocations == {tasks[t] : t \in TaskIds} \cup {last}

Reviewing(id) ==
    {t \in TaskIds : /\ tasks[t].kind = "ci"
                     /\ tasks[t].pc \in {"review", "post_review"}
                     /\ tasks[t].iteration.id = id}

RecommendationOf(task) == task.review_result.overall_assessment.recommendation

\* the review step of the invocation succeeded and its decision rule has run
Decided(task) ==
    /\ task.kind = "ci"
    /\ task.review_result # NoReview
    /\ task.posted # None

\* C1: in every reachable state each (repository, issue_number) has at most
\* one record with is_active = true, whatever the interleaving of start,
\* restart and CI-completion handlers.
C1_AtMostOneActive ==
    \A i, j \in Ids(records) :
        (i # j /\ SameIssue(records[i], records[j]) /\ records[i].is_active)
            => ~records[j].is_active

\* a second row was created for an issue while the first was still in
\* progress, and the first was deactivated by it
C1_Witness ==
    \E i, j \in Ids(records) :
        /\ i < j
        /\ SameIssue(records[i], records[j])
        /\ records[j].is_active
        /\ ~records[i].is_active
        /\ records[i].status = RUNNING
        /\ \E t \in TaskIds : tasks[t].iteration.id = i

\* C2: every record reaches a terminal status with is_active = false and
\* none stays in RUNNING, WAITING_CI or REVIEWING forever.  Stated on what
\* can still move a record: a record that is not terminal is either worked
\* on by an invocation in progress, or is active and waits for its CI event
\* (a record that is neither can be reached by no handler any more).
C2_Terminates ==
    \A i \in Ids(records) :
        ~Terminal(records[i]) =>
            \/ \E t \in TaskIds : tasks[t].iteration.id = i
            \/ records[i].is_active /\ records[i].status = WAITING_CI

\* C3: current_iteration never decreases, never exceeds max_iterations,
\* and a record whose current_iteration equals max_iterations is FAILED.
C3_IterationBudget ==
    /\ [](\A i \in Ids(records) :
            /\ records[i].current_iteration <= records[i].max_iterations
            /\ records[i].current_iteration = records[i].max_iterations
                  => records[i].status = FAILED)
    /\ [][\A i \in Ids(records) :
            records'[i].current_iteration >= records[i].current_iteration]_vars

\* a record has used up its budget after real code-generation steps
C3_Witness ==
    \E i \in Ids(records) :
        /\ records[i].current_iteration = records[i].max_iterations
        /\ records[i].status = FAILED
        /\ records[i].pr_number # 0

\* C4: once a record is COMPLETED or FAILED with is_active = false, no
\* later step changes its status, current_iteration, pr_number, review
\* fields or completed_at.
C4_TerminatedImmutable ==
    [][\A i \in Ids(records) :
            (Terminal(records[i]) /\ ~records[i].is_active) =>
                /\ records'[i].status = records[i].status
                /\ records'[i].current_iteration = records[i].current_iteration
                /\ records'[i].pr_number = records[i].pr_number
                /\ records'[i].last_review_score = records[i].last_review_score
                /\ records'[i].last_review_recommendation =
                       records[i].last_review_recommendation
                /\ records'[i].last_review_feedback = records[i].last_review_feedback
                /\ records'[i].completed_at = records[i].completed_at]_vars

\* C5: of two CI-completion events for the same PR exactly one runs a
\* review: a record in REVIEWING has exactly one review step in progress,
\* no record ever has two, and an event that finds REVIEWING returns True
\* without starting anything.
C5_OneReview ==
    /\ \A i \in Ids(records) :
          /\ Cardinality(Reviewing(i)) <= 1
          /\ records[i].status = REVIEWING => Cardinality(Reviewing(i)) = 1
    /\ (last.kind = "ci" /\ last.iteration.status = REVIEWING) =>
          /\ last.ret = "True"
          /\ last.review_result = NoReview
          /\ ~last.gw

\* a second event for the PR was skipped while the review started by the
\* first is still in progress
C5_Witness ==
    /\ last.kind = "ci"
    /\ last.iteration.status = REVIEWING
    /\ last.ret = "True"
    /\ \E t \in Reviewing(last.iteration.id) :
          tasks[t].pr_number = last.pr_number

\* C6: two start calls for one issue that both begin while no active
\* record exists create one record between them, not one each.
C6_OneRecordPerStart ==
    \A t1, t2 \in TaskIds :
        (/\ t1 # t2
         /\ tasks[t1].kind = "start" /\ tasks[t2].kind = "start"
         /\ tasks[t1].issue_number = tasks[t2].issue_number
         /\ tasks[t1].created # 0
         /\ tasks[t2].seen < tasks[t1].created)
            => tasks[t2].created = 0

\* the call an inbound event has just made
NewCall == IF Len(tasks') > Len(tasks) THEN tasks'[Len(tasks')] ELSE last'

\* C7: a plain start for an issue that has an active record returns that
\* record and does nothing else: no record is created or changed and no
\* gateway or assistant call is issued.
C7_StartIsNoOp ==
    [][(/\ events' = events + 1
        /\ NewCall.kind = "start"
        /\ \E i \in Ids(records) :
              /\ records[i].repo_full_name = Repo
              /\ records[i].issue_number = NewCall.issue_number
              /\ records[i].is_active)
          => /\ records' = records
             /\ tasks' = tasks
             /\ nextPr' = nextPr
             /\ NewCall.pc = "done"
             /\ ~NewCall.gw
             /\ NewCall.ret = "iteration"
             /\ NewCall.retId \in Ids(records)
             /\ records[NewCall.retId].is_active
             /\ records[NewCall.retId].issue_number = NewCall.issue_number]_vars

\* a plain start has returned the existing record, which is past RUNNING
C7_Witness ==
    /\ last.kind = "start"
    /\ last.created = 0
    /\ last.retId \in Ids(records)
    /\ records[last.retId].is_active
    /\ records[last.retId].status = WAITING_CI

\* C8: a successful review with recommendation approve or
\* approve_with_suggestions, triggered by a CI-completion event whose
\* conclusion is success, moves the record to COMPLETED, in every iteration.
C8_ApprovedAndGreenCompletes ==
    \A task \in Invocations :
        (/\ Decided(task)
         /\ RecommendationOf(task) \in {"approve", "approve_with_suggestions"}
         /\ task.ci_conclusion = "success")
            => task.decision = COMPLETED

\* C9: a successful review with recommendation request_changes below the
\* budget moves the record back to RUNNING and schedules exactly one more
\* code-generation step, whose planning input carries the feedback of that
\* review.
C9_LoopCarriesFeedback ==
    /\ \A task \in Invocations :
          (/\ Decided(task)
           /\ RecommendationOf(task) = "request_changes"
           /\ task.iteration.current_iteration < task.iteration.max_iterations)
              => task.decision = RUNNING /\ task.scheduled = 1
    /\ \A t \in TaskIds :
          (tasks[t].kind = "code" /\ tasks[t].pc = "code_agent")
              => tasks[t].iteration.last_review_feedback =
                     tasks[t].review_result.overall_assessment.summary

\* C10: in the remaining cases of the decision rule (an approving
\* recommendation with a CI conclusion that is not success, or a
\* recommendation outside the three known values) the record moves to
\* FAILED and no code-generation step is scheduled.
C10_OtherwiseFailed ==
    \A task \in Invocations :
        (/\ Decided(task)
         /\ \/ /\ RecommendationOf(task) \in {"approve", "approve_with_suggestions"}
               /\ task.ci_conclusion # "success"
            \/ RecommendationOf(task) \notin
                  {"approve", "approve_with_suggestions", "request_changes"})
            => task.decision = FAILED /\ task.scheduled = 0

\* the event an invocation stands for was a CI completion for a pull
\* request that has a record satisfying P
CiEventFor(P(_)) ==
    /\ events' = events + 1
    /\ NewCall.kind = "ci"
    /\ \E i \in Ids(records) :
          /\ records[i].repo_full_name = Repo
          /\ records[i].pr_number = NewCall.pr_number
          /\ P(records[i])

NotWaiting(r) == r.status # WAITING_CI

\* C11: the formal review action posted on the PR is APPROVE exactly when
\* the recommendation is approve and the conclusion of the triggering CI
\* event is success, REQUEST_CHANGES when the recommendation is
\* request_changes, and COMMENT in every other case.
C11_ReviewEvent ==
    \A task \in Invocations :
        (Decided(task) /\ task.posted = "both") =>
            task.event =
                IF RecommendationOf(task) = "approve" /\ task.ci_conclusion = "success"
                THEN "APPROVE"
                ELSE IF RecommendationOf(task) = "request_changes"
                THEN "REQUEST_CHANGES"
                ELSE "COMMENT"

\* C12: a CI-completion event for a PR whose record is COMPLETED or FAILED
\* is a no-op: no record changes, no review is started, no gateway call is
\* made, and the handler returns without raising (it returns False, the
\* result for "no active iteration found").
C12_TerminalEventIsNoOp ==
    [][CiEventFor(Terminal)
          => /\ records' = records
             /\ tasks' = tasks
             /\ nextPr' = nextPr
             /\ NewCall.pc = "done"
             /\ ~NewCall.gw
             /\ NewCall.review_result = NoReview
             /\ NewCall.ret = "False"]_vars

\* a CI event has been answered for a PR whose record had failed
C12_Witness ==
    /\ last.kind = "ci"
    /\ last.pc = "done"
    /\ last.ret = "False"
    /\ \E i \in Ids(records) :
          /\ records[i].pr_number = last.pr_number
          /\ records[i].status = FAILED
          /\ records[i].completed_at = "set"

\* C13: a CI-completion event for a PR that has a record whose status is
\* not WAITING_CI (RUNNING, REVIEWING, COMPLETED or FAILED) is reported as a
\* successful no-op: handle_ci_completion returns True.
C13_StaleEventReturnsTrue ==
    [][CiEventFor(NotWaiting) => NewCall.ret = "True"]_vars

\* C14: a CI-completion event that arrives while the PR's record is not
\* WAITING_CI is dropped and not queued: no record field changes (so
\* last_ci_status, last_ci_conclusion and status stay), nothing is left in
\* progress for it, and a review of a record only ever starts in the step
\* that delivers a CI-completion event to that record while it is active
\* and WAITING_CI.
C14_DroppedNotQueued ==
    /\ [][CiEventFor(NotWaiting)
             => /\ records' = records
                /\ tasks' = tasks
                /\ NewCall.pc = "done"
                /\ NewCall.review_result = NoReview]_vars
    /\ [][\A i \in Ids(records) :
             Cardinality(Reviewing(i)') > Cardinality(Reviewing(i))
                => /\ events' = events + 1
                   /\ NewCall.kind = "ci"
                   /\ NewCall.iteration.id = i
                   /\ records[i].is_active
                   /\ records[i].status = WAITING_CI
                   /\ records[i].pr_number = NewCall.pr_number]_vars

\* an event was dropped while the record was RUNNING with its next
\* code-generation step still ahead
C14_Witness ==
    /\ last.kind = "ci"
    /\ last.ret = "True"
    /\ last.iteration.status = RUNNING
    /\ last.review_result = NoReview
    /\ \E t \in TaskIds :
          /\ tasks[t].kind = "code"
          /\ tasks[t].iteration.id = last.iteration.id
          /\ records[last.iteration.id].status = RUNNING

\* the invocation that has just created the newest row
NewCreator ==
    CHOOSE task \in {tasks'[t] : t \in 1..Len(tasks')} \cup {last'} :
        task.created = Len(records')

\* a restart that finds an active record forces it to FAILED and inactive
\* before anything else, and creates nothing yet
RestartForcesFailed ==
    (events' = events + 1 /\ NewCall.kind = "restart")
        => /\ Len(records') = Len(records)
           /\ NewCall.pc = "get_issue"
           /\ \A i \in Ids(records) :
                 (/\ records[i].repo_full_name = Repo
                  /\ records[i].issue_number = NewCall.issue_number
                  /\ records[i].is_active)
                    => /\ NewCall.forced = i
                       /\ records'[i].status = FAILED
                       /\ ~records'[i].is_active
                       /\ records'[i].completed_at = "set"

\* the row a restart creates is new (no PR, no review, no CI fields), has
\* been through the increment of its first code-generation step and
\* nothing else (current_iteration 0 + 1), and is RUNNING with the code
\* agent under way unless the increment used up the budget
RestartCreatesFresh ==
    (Len(records') > Len(records) /\ NewCreator.kind = "restart")
        => LET n == Len(records')
               fresh == IssueIteration(n, Repo, NewCreator.issue_number,
                                       max_iterations)
           IN  /\ n = Len(records) + 1
               /\ [records'[n] EXCEPT !.current_iteration = 0,
                                      !.status = RUNNING,
                                      !.completed_at = None,
                                      !.is_active = TRUE] = fresh
               /\ records'[n].current_iteration = 1
               /\ IF 1 < max_iterations
                  THEN /\ records'[n].status = RUNNING
                       /\ records'[n].is_active
                       /\ NewCreator.pc = "code_agent"
                  ELSE records'[n].status = FAILED /\ ~records'[n].is_active
               /\ \A j \in Ids(records) :
                     SameIssue(records'[j], records'[n]) => ~records'[j].is_active

\* C15 as claimed: restart on an issue with an active record first forces
\* that record to FAILED with is_active = false, then creates a fresh
\* record and runs the code-generation step on it; when restart returns a
\* record, that record is the only active record of the issue.
C15_RestartReturnsOnlyActive ==
    /\ [][RestartForcesFailed]_vars
    /\ [][RestartCreatesFresh]_vars
    /\ [][(/\ last' # last /\ last'.kind = "restart" /\ last'.ret = "iteration"
            /\ last'.forced # 0)
             => /\ last'.retId \in Ids(records')
                /\ records'[last'.retId].is_active
                /\ \A j \in Ids(records') \ {last'.retId} :
                      SameIssue(records'[j], records'[last'.retId])
                          => ~records'[j].is_active]_vars

\* C15, amended: restart on an issue with an active record first forces
\* that record to FAILED with is_active = false, then creates a fresh
\* record and runs the code-generation step on it; when restart returns a
\* record, it is the record this restart created, every older record of
\* the issue is inactive, and the returned record is the only active record
\* of the issue if it is still active (it is not when its code-generation
\* step failed or a later start or restart replaced it).
C15_RestartReplaces ==
    /\ [][RestartForcesFailed]_vars
    /\ [][RestartCreatesFresh]_vars
    /\ []((last.kind = "restart" /\ last.ret = "iteration")
            => /\ last.retId \in Ids(records)
               /\ last.retId = last.created
               /\ \A j \in Ids(records) :
                     (j < last.retId /\ SameIssue(records[j], records[last.retId]))
                         => ~records[j].is_active
               /\ records[last.retId].is_active
                     => \A j \in Ids(records) \ {last.retId} :
                           SameIssue(records[j], records[last.retId])
                               => ~records[j].is_active)

\* a restart forced the active record to FAILED and has returned the record
\* it created, whose code-generation step had failed
C15_Witness ==
    /\ last.kind = "restart"
    /\ last.ret = "iteration"
    /\ last.forced # 0
    /\ records[last.forced].status = FAILED
    /\ last.retId > last.forced
    /\ records[last.retId].status = FAILED
    /\ ~records[last.retId].is_active
    /\ last.message = "Code generation failed"

\* gateway operations that change something at the hosting service, and
\* the calls to the assistant
MutatingCalls ==
    {"create_branch", "update_branch", "create_or_update_file",
     "create_pull_request", "update_pull_request",
     "create_issue_comment", "create_pull_request_review"}

AssistantCalls == {"generate_response", "_perform_comprehensive_review"}

LimitMessage == "Maximum iterations reached"

\* the calls an invocation issued after it had fetched the issue, that is,
\* in its code-generation or review step
StepOps(task) == SelectSeq(task.ops, LAMBDA o : o.op # "get_issue")

Range(seq) == {seq[i] : i \in DOMAIN seq}

\* current_iteration only changes by the increment that opens a
\* code-generation step; if the incremented value is greater than or equal
\* to max_iterations the record is FAILED, inactive and has completed_at
\* set, and the step has given the limit as its message and is at its end;
\* otherwise the step has gone on to the code agent
IncrementThenLimit ==
    \A i \in Ids(records') :
        LET before == IF i \in Ids(records) THEN records[i].current_iteration ELSE 0
            running == {task \in {tasks'[t] : t \in 1..Len(tasks')} \cup {last'} :
                            task.iteration.id = i /\ task.decision # RUNNING}
        IN  records'[i].current_iteration # before =>
               /\ records'[i].current_iteration = before + 1
               /\ IF before + 1 >= records'[i].max_iterations
                  THEN /\ records'[i].status = FAILED
                       /\ ~records'[i].is_active
                       /\ records'[i].completed_at = "set"
                       /\ \E task \in running :
                             /\ task.kind \in {"start", "restart", "code"}
                             /\ task.message = LimitMessage
                             /\ task.decision = FAILED
                             /\ task.pc \in {"final_comment", "done"}
                  ELSE \E task \in running :
                             /\ task.kind \in {"start", "restart", "code"}
                             /\ task.pc = "code_agent"
                             /\ task.message = None

\* C16 as claimed: a code-generation step first increments
\* current_iteration; if the incremented value is greater than or equal to
\* max_iterations the record becomes FAILED with is_active = false and
\* completed_at set, with a message citing the iteration limit, and the step
\* stops without calling the assistant or any mutating repository operation.
C16_LimitStopsWithoutCalls ==
    /\ [][IncrementThenLimit]_vars
    /\ [](\A task \in Invocations :
            task.message = LimitMessage =>
                \A o \in Range(StepOps(task)) :
                    o.op \notin AssistantCalls \cup MutatingCalls)

\* C16, amended: as claimed, except that the step does issue one mutating
\* call when the record has a pull request: the final comment of the
\* completion.  It calls neither the assistant nor any branch, file or
\* pull-request operation.
C16_LimitStopsAfterComment ==
    /\ [][IncrementThenLimit]_vars
    /\ [](\A task \in Invocations :
            task.message = LimitMessage =>
                /\ \A o \in Range(StepOps(task)) :
                      o = Op("create_issue_comment", "final", o.res)
                /\ Len(StepOps(task)) =
                      IF task.pc = "done" /\ task.iteration.pr_number # 0
                      THEN 1 ELSE 0)

\* a code-generation step has found the budget used up, has failed the
\* record and has posted the final comment on its pull request
C16_Witness ==
    /\ last.kind = "code"
    /\ last.message = LimitMessage
    /\ last.pc = "done"
    /\ last.ops = <<Op("create_issue_comment", "final", "ok")>>
    /\ records[last.iteration.id].status = FAILED
    /\ records[last.iteration.id].current_iteration =
          records[last.iteration.id].max_iterations
    /\ ~records[last.iteration.id].is_active

\* the outcomes of a call that are not failures: it returned, the assistant
\* answered with a plan or an assessment, the file was found or is absent
Answers == {"ok", "json", "result", "found", "absent"}

AllSucceeded(task) == \A o \in Range(task.ops) : o.res \in Answers

\* C17: the scenario with max_iterations = 3 (or more) in which every
\* gateway call succeeds.  (1) When start returns, its record is WAITING_CI
\* with current_iteration = 1 and a pull request.  (2) A review with
\* recommendation request_changes, triggered by a CI success event in
\* iteration 1, schedules a second code-generation step, and when that step
\* returns the record is WAITING_CI with current_iteration = 2 and the same
\* pull request, which was updated and not created again.  (3) A review with
\* recommendation approve, triggered by a second CI success event, moves the
\* record to COMPLETED, and the formal review action posted is APPROVE.
C17_Scenario ==
    /\ [][(/\ last' # last
           /\ last'.kind = "start" /\ last'.created # 0
           /\ AllSucceeded(last'))
             => /\ last'.ret = "iteration" /\ last'.retId = last'.created
                /\ records'[last'.created].status = WAITING_CI
                /\ records'[last'.created].current_iteration = 1
                /\ records'[last'.created].pr_number # 0]_vars
    /\ [](\A task \in Invocations :
            (/\ Decided(task) /\ AllSucceeded(task)
             /\ task.iteration.max_iterations >= 3
             /\ task.iteration.current_iteration = 1
             /\ task.ci_conclusion = "success"
             /\ RecommendationOf(task) = "request_changes")
                => task.decision = RUNNING /\ task.scheduled = 1)
    /\ [][(/\ last' # last
           /\ last'.kind = "code"
           /\ last'.iteration.max_iterations >= 3
           /\ last'.iteration.current_iteration = 2
           /\ AllSucceeded(last'))
             => LET id == last'.iteration.id
                IN  /\ records'[id].status = WAITING_CI
                    /\ records'[id].current_iteration = 2
                    /\ records'[id].pr_number = records[id].pr_number
                    /\ records'[id].pr_number # 0
                    /\ \E o \in Range(last'.ops) : o.op = "update_pull_request"
                    /\ \A o \in Range(last'.ops) : o.op # "create_pull_request"]_vars
    /\ [](\A task \in Invocations :
            (/\ Decided(task) /\ AllSucceeded(task) /\ task.posted = "both"
             /\ task.iteration.current_iteration = 2
             /\ task.iteration.last_ci_conclusion = "success"
             /\ task.ci_conclusion = "success"
             /\ RecommendationOf(task) = "approve")
                => /\ task.decision = COMPLETED
                   /\ task.event = "APPROVE"
                   /\ records[task.iteration.id].status = COMPLETED
                   /\ ~records[task.iteration.id].is_active)

\* the scenario has run to its end: one record, three events, the second
\* review approved and the record is COMPLETED after two iterations
C17_Witness ==
    /\ Len(records) = 1
    /\ events = 3
    /\ tasks = <<>>
    /\ last.kind = "ci" /\ last.pc = "done"
    /\ AllSucceeded(last)
    /\ last.ci_conclusion = "success"
    /\ last.iteration.last_ci_conclusion = "success"
    /\ RecommendationOf(last) = "approve"
    /\ last.event = "APPROVE"
    /\ last.decision = COMPLETED
    /\ records[1].status = COMPLETED
    /\ records[1].current_iteration = 2
    /\ records[1].pr_number = 1

\* the planning request of the invocation's code-generation step was
\* answered by a text without a JSON object, or with one that does not parse
PlanFailed(task) ==
    \E o \in Range(task.ops) :
        /\ o.op = "generate_response" /\ o.arg = "plan"
        /\ o.res \in {"no_json", "bad_json"}

\* the code agent of the invocation has just returned after such an answer
PlanJustFailed(task) ==
    /\ PlanFailed(task)
    /\ task.ops[Len(task.ops)].op = "generate_response"

\* C18: if the plan cannot be extracted from the assistant's text (no JSON
\* object found, or it does not parse), the code-generation step fails with
\* the message "Code generation failed", the record becomes FAILED, and the
\* step creates no pull request (it issues no file or pull-request call
\* at all).
C18_PlanFailureFails ==
    /\ [](\A task \in Invocations :
            PlanFailed(task) =>
                /\ task.decision = FAILED
                /\ task.message = "Code generation failed"
                /\ task.value = "False"
                /\ \A o \in Range(task.ops) :
                      o.op \notin {"create_pull_request", "update_pull_request",
                                   "create_or_update_file", "list_repository_files"})
    /\ [][\A task \in Invocations' \ Invocations :
            PlanJustFailed(task) =>
                /\ records'[task.iteration.id].status = FAILED
                /\ ~records'[task.iteration.id].is_active
                /\ records'[task.iteration.id].completed_at = "set"
                /\ records'[task.iteration.id].pr_number =
                      records[task.iteration.id].pr_number
                /\ nextPr' = nextPr]_vars

\* a first code-generation step has failed on an answer with braces that
\* is not JSON: the record is FAILED and has no pull request
C18_Witness ==
    /\ last.kind = "start"
    /\ last.pc = "done"
    /\ \E o \in Range(last.ops) :
          o = Op("generate_response", "plan", "bad_json")
    /\ last.message = "Code generation failed"
    /\ records[last.iteration.id].status = FAILED
    /\ records[last.iteration.id].pr_number = 0
    /\ nextPr = 1

\* the answers to create_branch that say that the branch exists already
AlreadyExists == {"422 reference already exists", "reference already exists"}

\* the step went on after the failed create_branch at position i of the
\* log: it tried to update the branch, asked for the plan whatever the
\* update answered, and when no later call of the code agent failed it
\* published the pull request and left the record waiting for CI
ContinuesAfter(task, i) ==
    /\ Len(task.ops) >= i + 2
    /\ task.ops[i + 1].op = "update_branch"
    /\ task.ops[i + 1].arg = task.ops[i].arg
    /\ task.ops[i + 2].op = "generate_response" /\ task.ops[i + 2].arg = "plan"
    /\ (\A j \in (i + 2)..Len(task.ops) : task.ops[j].res \in Answers)
          => /\ task.value = "True"
             /\ task.decision = WAITING_CI
             /\ task.ops[Len(task.ops)].op \in
                   {"create_pull_request", "update_pull_request"}

\* the step failed at the create_branch at position i of the log: no call
\* of the code agent follows it
FailsAt(task, i) ==
    /\ \A j \in (i + 1)..Len(task.ops) : task.ops[j].op = "create_issue_comment"
    /\ task.value = "False"
    /\ task.decision = FAILED
    /\ task.message = "Code generation failed"

\* C19: if branch creation fails with an already-exists error the step
\* updates the existing branch and continues to planning, applying and
\* publishing without failing; any other branch-creation failure fails the
\* code-generation step.
C19_OnlyAlreadyExistsRecovers ==
    \A task \in Invocations :
        \A i \in DOMAIN task.ops :
            task.ops[i].op = "create_branch" =>
                /\ task.ops[i].res \in AlreadyExists => ContinuesAfter(task, i)
                /\ task.ops[i].res \notin AlreadyExists \cup {"ok"} => FailsAt(task, i)

----------------------------------------------------------------------------
\* the values the entry point of an invocation can return: an iteration or
\* None for start and restart, a bool for handle_ci_completion and for the
\* scheduled _run_code_iteration
DefinedOutcome(task) ==
    CASE task.kind \in {"start", "restart"} ->
           \/ task.ret = None
           \/ task.ret = "iteration" /\ task.retId \in 1..Len(records)
      [] task.kind \in {"ci", "code"} -> task.ret \in {"True", "False"}
      [] OTHER -> TRUE

\* C20: every inbound event handler (start, restart, CI completion) and
\* every scheduled continuation returns a defined outcome whatever the
\* gateway, the assistant and the store do: no invocation ends with an
\* exception that left its coroutine, and an invocation that has returned
\* has returned one of the values of its signature.
C20_DefinedOutcomeAlways ==
    \A task \in Invocations :
        /\ task.ret # "fault"
        /\ task.pc = "done" => DefinedOutcome(task)
        /\ task.pc # "done" => task.ret = "pending"

\* a scheduled continuation whose gateway session raised, whose record could
\* then not be completed because the store raised as well, and which
\* returned False all the same
C20_Witness ==
    /\ last.kind = "code"
    /\ last.pc = "done"
    /\ last.ret = "False"
    /\ last.message = "exception"
    /\ \E i \in 1..Len(last.ops) : last.ops[i].res = "raise"
    /\ Raises("complete_iteration")
    /\ Row(records, last.iteration.id).is_active

----------------------------------------------------------------------------
\* a call of the gateway (not of the assistant) that failed; the reading
\* of an existing record's step leaves out get_issue
GatewayFailure(o) ==
    /\ o.op \notin AssistantCalls \cup {"get_issue"}
    /\ o.res \notin Answers

\* the invocation has just run a segment; old is the invocation before it
Ran(old, task) ==
    /\ old.kind = task.kind
    /\ Len(old.ops) < Len(task.ops)
    /\ SubSeq(task.ops, 1, Len(old.ops)) = old.ops

\* every step in which a gateway call of a code-generation or review step
\* failed (the final comment of a completion apart) ends the step with the
\* record FAILED and inactive and with no continuation scheduled
FailureFailsRecord ==
    \A task \in Invocations' \ Invocations :
        \A old \in Invocations :
            /\ Ran(old, task)
            /\ \E i \in (Len(old.ops) + 1)..Len(task.ops) :
                  /\ GatewayFailure(task.ops[i])
                  /\ task.ops[i].arg # "final"
            => /\ task.pc \in {"final_comment", "done"}
               /\ task.decision = FAILED
               /\ task.scheduled = 0
               /\ Row(records', task.iteration.id).status = FAILED
               /\ ~Row(records', task.iteration.id).is_active

\* a failed gateway call is not issued again by the invocation
NotIssuedAgain ==
    \A task \in Invocations :
        \A i, j \in DOMAIN task.ops :
            i < j /\ GatewayFailure(task.ops[i]) =>
                ~(task.ops[j].op = task.ops[i].op /\ task.ops[j].arg = task.ops[i].arg)

\* C21: a gateway failure inside a code-generation step or a review step of
\* an existing record aborts that step, leaves the record FAILED with
\* is_active = false, and is not retried: the failed call is not issued
\* again and no further step is scheduled for the record.
C21_GatewayFailureAborts ==
    /\ [][FailureFailsRecord]_vars
    /\ []NotIssuedAgain

----------------------------------------------------------------------------
\* record i is terminal after the step and was not before it
BecomesTerminal(i) ==
    /\ Terminal(records'[i])
    /\ i \in Ids(records) => ~Terminal(records[i])

\* an invocation stands at the final comment of the completion of record i
PostsFinalComment(i) ==
    \E task \in Invocations :
        task.iteration.id = i /\ task.pc = "final_comment"

\* C22: every transition of a record into a terminal status, from whichever
\* path (budget exhaustion, step failure, decision rule, or the forced
\* FAILED of a restart), persists the status and completed_at, sets
\* is_active = false, and, when the record has a pull request, attempts to
\* post a final summary comment on that pull request.
C22_TerminalTransitionCompletes ==
    [][\A i \in Ids(records') :
          BecomesTerminal(i) =>
              /\ records'[i].completed_at = "set"
              /\ ~records'[i].is_active
              /\ records'[i].pr_number # 0 => PostsFinalComment(i)']_vars

----------------------------------------------------------------------------
\* the edges of the state machine of a record's status
Edges ==
    {<<RUNNING, WAITING_CI>>, <<WAITING_CI, REVIEWING>>,
     <<REVIEWING, COMPLETED>>, <<REVIEWING, FAILED>>, <<REVIEWING, RUNNING>>}
      \cup {<<s, FAILED>> : s \in {RUNNING, WAITING_CI, REVIEWING}}

\* C23: a record is created in status RUNNING, and every later change of
\* its status follows an edge of the state machine: RUNNING to WAITING_CI,
\* WAITING_CI to REVIEWING, REVIEWING to COMPLETED, FAILED or RUNNING, and
\* any non-terminal status to FAILED; no other status change occurs in any
\* interleaving.
C23_StatusFollowsEdges ==
    [][\A i \in Ids(records') :
          IF i \in Ids(records)
          THEN \/ records'[i].status = records[i].status
               \/ <<records[i].status, records'[i].status>> \in Edges
          ELSE <<RUNNING, records'[i].status>> \in Edges \cup {<<RUNNING, RUNNING>>}]_vars

----------------------------------------------------------------------------
\* the invocations that are inside a code-generation or review step of
\* record i and have a write of that record still to make
Writers(i) ==
    {t \in TaskIds : /\ tasks[t].iteration.id = i
                     /\ tasks[t].pc \in {"scheduled", "code_agent", "review",
                                         "post_review"}}

\* C24: the orchestrator never issues overlapping mutating calls for the
\* same record: at no time are two orchestration steps (code-generation,
\* review, or a restart's forced completion) in progress that both write
\* the same record.
C24_NoOverlappingWriters ==
    /\ [](\A i \in Ids(records) : Cardinality(Writers(i)) <= 1)
    /\ [][(/\ events' = events + 1
           /\ NewCall.kind = "restart"
           /\ NewCall.forced # 0) => Writers(NewCall.forced) = {}]_vars

----------------------------------------------------------------------------
PublishCalls == {"create_pull_request", "update_pull_request"}

\* the invocations whose code agent has just published: the call that
\* creates or updates the pull request is the last of their log
JustPublished ==
    {task \in Invocations' \ Invocations :
        /\ task.ops # <<>>
        /\ task.ops[Len(task.ops)].op \in PublishCalls}

\* C25: over the whole lifetime of one record, a pull request is created at
\* most once: the code-generation step creates a pull request exactly when
\* the record has none, a created pull request gets a fresh number that is
\* stored as the record's pr_number, every later code-generation step of
\* the record updates the pull request and leaves pr_number as it is, and
\* pr_number never changes once set.
C25_OnePullRequestPerRecord ==
    /\ [][\A i \in Ids(records) :
             records[i].pr_number # 0 =>
                 records'[i].pr_number = records[i].pr_number]_vars
    /\ [][\A task \in JustPublished :
             LET publish == task.ops[Len(task.ops)]
                 i == task.iteration.id
             IN  /\ publish.op = "create_pull_request" <=> records[i].pr_number = 0
                 /\ publish.res = "ok" =>
                       IF records[i].pr_number = 0
                       THEN /\ records'[i].pr_number = nextPr
                            /\ nextPr' = nextPr + 1
                            /\ \A j \in Ids(records) : records[j].pr_number < nextPr
                       ELSE /\ records'[i].pr_number = records[i].pr_number
                            /\ nextPr' = nextPr
                 /\ publish.res # "ok" =>
                       /\ records'[i].pr_number = records[i].pr_number
                       /\ nextPr' = nextPr]_vars

\* the second code-generation step of a record has updated the pull request
\* that the first step opened
C25_Witness ==
    /\ last.kind = "code"
    /\ last.pc = "done"
    /\ last.ops # <<>>
    /\ last.ops[Len(last.ops)] = Op("update_pull_request", BranchName(42), "ok")
    /\ records[last.iteration.id].current_iteration = 2
    /\ records[last.iteration.id].pr_number = 1
    /\ records[last.iteration.id].status = WAITING_CI
    /\ nextPr = 2

----------------------------------------------------------------------------
\* C26: the store operations update, increment and complete, called with
\* an id that has no record, return an absent result and leave every
\* stored record unchanged.
C26_AbsentIdIsNoOp ==
    [][(/\ last'.kind \in {"update_iteration", "increment_iteration",
                           "complete_iteration"}
        /\ last'.id \notin Ids(records))
           => /\ last'.result = NoIteration
              /\ records' = records]_vars

\* each of the three operations has been called with an id that has no row
\* while the table held a row, and has returned no row
C26_Witness ==
    /\ last.kind \in {"update_iteration", "increment_iteration", "complete_iteration"}
    /\ records # <<>>
    /\ last.id \notin Ids(records)
    /\ last.result = NoIteration

----------------------------------------------------------------------------
\* C27: when no iteration budget is configured, the budget defaults to 5:
\* every record created by start or restart then has max_iterations = 5.
\* (A configured budget is the one the records get.)
C27_DefaultBudget ==
    \A i \in Ids(records) :
        records[i].max_iterations =
            IF settings = Settings([PATH |-> "/usr/bin"]) THEN 5 ELSE max_iterations

\* with no budget configured, a start and a restart have each created a
\* record, and both records have a budget of 5
C27_Witness ==
    /\ settings = Settings([PATH |-> "/usr/bin"])
    /\ Len(records) = 2
    /\ \A i \in Ids(records) : records[i].max_iterations = 5
    /\ \E task \in Invocations : task.kind = "restart" /\ task.created = 2

----------------------------------------------------------------------------
\* a mutating call made to post the review has failed
PostingFailed(task) ==
    \E o \in Range(task.ops) :
        /\ \/ o.op = "create_issue_comment" /\ o.arg = "review"
           \/ o.op = "create_pull_request_review"
        /\ o.res \notin Answers

\* the messages the branches of the decision rule complete a record with
DecisionMessages ==
    {"Code approved and CI passed", "Max iterations reached or unresolvable issues"}

----------------------------------------------------------------------------
\* the positions of the log with a call about a planned file, and those at
\* which the attempt on a file begins
FileCalls(task) == {i \in DOMAIN task.ops : task.ops[i].arg \in Files}

Attempts(task) ==
    {i \in FileCalls(task) : i = 1 \/ task.ops[i - 1].arg # task.ops[i].arg}

\* an operation on a planned file has failed
FileFailed(task) == \E i \in FileCalls(task) : task.ops[i].res \notin Answers

\* the files of the plan were attempted one after the other: those to
\* modify in list order, each beginning with the fetch of its content, then
\* those to create in list order, each beginning with the generation
AttemptedInOrder(task) ==
    LET modify == Get(task.analysis, "files_to_modify", <<>>)
        create == Get(task.analysis, "files_to_create", <<>>)
        planned == modify \o create
        attempts == Attempts(task)
    IN  /\ Cardinality(attempts) = Len(planned)
        /\ \A i \in attempts :
              LET k == Cardinality({j \in attempts : j <= i})
              IN  /\ task.ops[i].arg = planned[k]
                  /\ task.ops[i].op = IF k <= Len(modify) THEN "get_file_content"
                                      ELSE "generate_response"

\* the pull request was created or updated after the last call about a file
PublishedAfterFiles(task) ==
    \E i \in DOMAIN task.ops :
        /\ task.ops[i].op \in PublishCalls
        /\ \A j \in FileCalls(task) : j < i

\* C29: a failure while modifying or creating one planned file does not
\* abort the apply step: every planned file is still attempted in order,
\* the apply step reports success, so that the pull request is created or
\* updated, and, that call succeeding, the step returns True and the record
\* reaches WAITING_CI with the pull request's number, even when every
\* per-file operation failed.
C29_FileFailureDoesNotAbort ==
    /\ [](\A task \in Invocations :
            FileFailed(task) =>
                /\ AttemptedInOrder(task)
                /\ PublishedAfterFiles(task)
                /\ (\E o \in Range(task.ops) : o.op \in PublishCalls /\ o.res = "ok")
                      => task.value = "True" /\ task.decision = WAITING_CI)
    /\ [][\A task \in JustPublished :
             FileFailed(task) /\ task.ops[Len(task.ops)].res = "ok" =>
                 /\ Row(records', task.iteration.id).status = WAITING_CI
                 /\ Row(records', task.iteration.id).pr_number # 0]_vars

\* a start whose plan named two files, for which every write failed, and
\* which has opened the pull request and left its record waiting for CI
C29_Witness ==
    /\ last.kind = "start"
    /\ last.pc = "done"
    /\ Cardinality(Attempts(last)) = 2
    /\ \A f \in Files : \E i \in FileCalls(last) :
          last.ops[i].arg = f /\ last.ops[i].res \notin Answers
    /\ \A i \in FileCalls(last) :
          last.ops[i].op = "create_or_update_file" => last.ops[i].res = "raise"
    /\ last.ops[Len(last.ops)] = Op("create_pull_request", BranchName(42), "ok")
    /\ records[last.created].status = WAITING_CI
    /\ records[last.created].pr_number = 1

----------------------------------------------------------------------------
\* the positions of the log at which the plan was asked for, and those at
\* which the pull request was created or updated
PlanCalls(task) ==
    {i \in DOMAIN task.ops :
        task.ops[i].op = "generate_response" /\ task.ops[i].arg = "plan"}

Publications(task) == {i \in DOMAIN task.ops : task.ops[i].op \in PublishCalls}

\* C30: within one code-generation step the calls are strictly sequential
\* in the order plan, then apply file by file (all files to modify in list
\* order, then all files to create in list order), then publish the pull
\* request: the plan is asked for once, no call about a file is made before
\* the plan has been obtained, the calls about one file are not mixed with
\* those about another, and the pull request is created or updated once,
\* after every planned file has been attempted.
C30_PlanApplyPublish ==
    \A task \in Invocations :
        /\ Cardinality(PlanCalls(task)) <= 1
        /\ Cardinality(Publications(task)) <= 1
        /\ \A i \in FileCalls(task) :
              \E p \in PlanCalls(task) : p < i /\ task.ops[p].res = "json"
        /\ FileCalls(task) # {} => AttemptedInOrder(task)
        /\ \A i \in Publications(task) :
              /\ AttemptedInOrder(task)
              /\ \A j \in FileCalls(task) \cup PlanCalls(task) : j < i
              /\ \E j \in DOMAIN task.ops :
                    j < i /\ task.ops[j] = Op("list_repository_files", "", "ok")

\* a start whose step asked for the plan, modified a.py, created b.py and
\* then opened the pull request
C30_Witness ==
    /\ last.kind = "start"
    /\ last.pc = "done"
    /\ last.analysis = ModifyAndCreate
    /\ SubSeq(last.ops, 5, Len(last.ops)) =
          <<Op("generate_response", "plan", "json"),
            Op("list_repository_files", "", "ok"),
            Op("get_file_content", "a.py", "found"),
            Op("generate_response", "a.py", "ok"),
            Op("create_or_update_file", "a.py", "ok"),
            Op("generate_response", "b.py", "ok"),
            Op("create_or_update_file", "b.py", "ok"),
            Op("create_pull_request", BranchName(42), "ok")>>

\* C31: after a successful review step (the task stands between the store
\* update of the review and the posting of its results) the record's persisted
\* last_review_recommendation is the recommendation of the overall assessment
\* the decision rule reads, and the persisted last_review_score is that
\* assessment's score.
C31_PersistedAssessment ==
    \A t \in TaskIds :
        tasks[t].pc = "post_review" =>
            \A i \in Ids(records) :
                i = tasks[t].iteration.id =>
                    /\ Row(records, i).last_review_recommendation =
                           RecommendationOf(tasks[t])
                    /\ Row(records, i).last_review_score =
                           tasks[t].review_result.overall_assessment.score

\* C32: the CI consideration of the review changes only the score and the
\* summary of the overall assessment: when the CI conclusion is not success and
\* the generated score exceeds 50 the returned score is the generated score
\* times 0.8, when the score is at most 50 or the conclusion is success the
\* score is unchanged, and the recommendation is always returned as generated.
C32_CiConsideration ==
    last.kind = "returned" =>
        LET raw == last.generated
            out == last.review_result
            ci_success == last.context.ci_conclusion = "success"
        IN  /\ DOMAIN out = DOMAIN raw
            /\ \A k \in DOMAIN raw \ {"overall_assessment"} : out[k] = raw[k]
            /\ DOMAIN out.overall_assessment = DOMAIN raw.overall_assessment
            /\ \A k \in DOMAIN raw.overall_assessment \ {"score", "summary"} :
                  out.overall_assessment[k] = raw.overall_assessment[k]
            /\ out.overall_assessment.recommendation =
                  raw.overall_assessment.recommendation
            /\ (~ci_success /\ raw.overall_assessment.score > 50)
                  => 10 * out.overall_assessment.score =
                         8 * raw.overall_assessment.score
            /\ (ci_success \/ raw.overall_assessment.score <= 50)
                  => out.overall_assessment.score = raw.overall_assessment.score

\* a generated score above 50 was discounted for a failed CI run
C32_Witness ==
    /\ last.kind = "returned"
    /\ last.context.ci_conclusion = "failure"
    /\ last.generated.overall_assessment.score = 55
    /\ last.review_result.overall_assessment.score = 44
    /\ last.review_result.overall_assessment.recommendation = "approve"

BranchCalls == {"create_branch", "update_branch"} \cup PublishCalls

\* C33: the branch of a record is agent/issue-<issue_number> in every
\* iteration: a stored branch_name is that name, every call of a
\* code-generation step that names a branch names it, and a branch_name that
\* is set never changes.
C33_BranchOfRecord ==
    /\ [](\A i \in Ids(records) :
             records[i].branch_name \in
                 {None, BranchName(records[i].issue_number)})
    /\ [](\A task \in Invocations : \A k \in 1..Len(task.ops) :
             task.ops[k].op \in BranchCalls =>
                 task.ops[k].arg = BranchName(task.iteration.issue_number))
    /\ [][\A i \in Ids(records) :
             records[i].branch_name # None =>
                 records'[i].branch_name = records[i].branch_name]_vars

\* the second code-generation step of a record has updated the pull request
\* from the branch the first step stored
C33_Witness ==
    \E task \in Invocations : \E i \in Ids(records) :
        /\ task.iteration.id = i
        /\ records[i].current_iteration = 2
        /\ records[i].status = WAITING_CI
        /\ records[i].branch_name = BranchName(42)
        /\ task.iteration.branch_name = BranchName(42)
        /\ Len(task.ops) > 0
        /\ task.ops[Len(task.ops)].op = "update_pull_request"
        /\ task.ops[Len(task.ops)].arg = records[i].branch_name

\* C34: in every reachable state a record whose status is COMPLETED has
\* last_ci_conclusion = success: a cycle is never marked COMPLETED when the
\* most recent CI result recorded for it is not a success.
C34_CompletedOnSuccess ==
    \A i \in Ids(records) :
        records[i].status = COMPLETED => records[i].last_ci_conclusion = "success"

\* C35: in every reachable state every record with is_active = false has a
\* terminal status (COMPLETED or FAILED) and completed_at set: a record is
\* never deactivated while its status is RUNNING, WAITING_CI or REVIEWING.
C35_InactiveIsTerminal ==
    \A i \in Ids(records) :
        ~records[i].is_active =>
            /\ Terminal(records[i])
            /\ records[i].completed_at # None

\* C36: in every reachable state a record whose status is WAITING_CI or
\* REVIEWING has current_iteration >= 1, current_iteration < max_iterations,
\* and both pr_number and branch_name set; hence the decision rule's test
\* current_iteration < max_iterations holds whenever it is evaluated.
C36_WaitingRecordShape ==
    /\ \A i \in Ids(records) :
          records[i].status \in {WAITING_CI, REVIEWING} =>
              /\ records[i].current_iteration >= 1
              /\ records[i].current_iteration < records[i].max_iterations
              /\ records[i].pr_number # 0
              /\ records[i].branch_name # None
    /\ \A t \in TaskIds :
          tasks[t].pc = "post_review" =>
              tasks[t].iteration.current_iteration <
                  tasks[t].iteration.max_iterations

\* the review of the second iteration of a record has been stored and its
\* decision rule is about to run
C36_Witness ==
    \E t \in TaskIds : \E i \in Ids(records) :
        /\ tasks[t].pc = "post_review"
        /\ tasks[t].iteration.id = i
        /\ records[i].status = REVIEWING
        /\ records[i].current_iteration = 2
        /\ records[i].max_iterations = 3

\* the invocations that have just started a code-generation pass (the counter
\* of their record has been incremented and the budget test has let them on),
\* and those that have just started a review
PassStarts == {task \in Invocations' \ Invocations : task.pc = "code_agent"}

ReviewStarts ==
    {task \in Invocations' \ Invocations : task.kind = "ci" /\ task.pc = "review"}

CountBefore(i) == IF i \in Ids(records) THEN records[i].current_iteration ELSE 0

\* the status of the record is WAITING_CI after the step and was not before
EntersWaiting(i) ==
    /\ records'[i].status = WAITING_CI
    /\ i \in Ids(records) => records[i].status # WAITING_CI

\* C37: a record with max_iterations = N has at most N - 1 code-generation
\* passes that ask for a plan and at most N - 1 reviews.  Every pass gets its
\* own number, the record's counter after the increment that starts it, and
\* the counter only ever grows by one; a pass goes on to planning only with a
\* number from 1 to N - 1, and one invocation plans at most once.  A review
\* starts only from WAITING_CI, which it leaves, and WAITING_CI is entered only
\* by a pass that has planned and published, so there are no more reviews than
\* such passes.  With N = 1 the record is FAILED as soon as it exists, without
\* a branch or a pull request, and its invocation has called neither the
\* planning engine nor the repository.
C37_IterationBudget ==
    /\ [][\A i \in Ids(records) :
             records'[i].current_iteration \in
                 {records[i].current_iteration,
                  records[i].current_iteration + 1}]_vars
    /\ [][\A task \in PassStarts :
             LET i == task.iteration.id
             IN  /\ records'[i].current_iteration = CountBefore(i) + 1
                 /\ task.iteration.current_iteration =
                        records'[i].current_iteration
                 /\ task.iteration.current_iteration \in
                        1..(records'[i].max_iterations - 1)
                 /\ PlanCalls(task) = {}]_vars
    /\ [](\A task \in Invocations :
             /\ Cardinality(PlanCalls(task)) <= 1
             /\ PlanCalls(task) # {} =>
                   /\ task.kind \in {"start", "restart", "code"}
                   /\ task.iteration.current_iteration \in
                          1..(task.iteration.max_iterations - 1))
    /\ [][\A task \in ReviewStarts :
             LET i == task.iteration.id
             IN  /\ records[i].status = WAITING_CI
                 /\ records'[i].status = REVIEWING
                 /\ records[i].current_iteration \in
                        1..(records[i].max_iterations - 1)]_vars
    /\ [][\A i \in Ids(records') :
             EntersWaiting(i) =>
                 /\ last' \notin Invocations
                 /\ last'.iteration.id = i
                 /\ PlanCalls(last') # {}
                 /\ Publications(last') # {}]_vars
    /\ [](\A i \in Ids(records) :
             records[i].max_iterations = 1 =>
                 /\ records[i].status = FAILED
                 /\ records[i].current_iteration = 1
                 /\ records[i].pr_number = 0
                 /\ records[i].branch_name = None)
    /\ [](\A task \in Invocations :
             task.iteration.max_iterations = 1 =>
                 \A k \in DOMAIN task.ops : task.ops[k].op = "get_issue")

\* a record with a budget of 2 has had its one pass and its one review, and
\* its second pass has been refused
C37_Witness ==
    \E i \in Ids(records) :
        /\ records[i].max_iterations = 2
        /\ records[i].current_iteration = 2
        /\ records[i].status = FAILED
        /\ records[i].pr_number # 0
        /\ records[i].last_ci_conclusion # None
        /\ last.kind = "code"
        /\ last.iteration.id = i
        /\ PlanCalls(last) = {}

\* the calls that write to the branch or to the pull request
BranchWrites ==
    {"create_branch", "update_branch", "create_or_update_file"} \cup PublishCalls

\* C38: a code-generation step whose planning fails has issued no mutating
\* repository call: its log has no call that creates or force-updates the
\* branch, writes a file, or creates or updates a pull request.
C38_PlanFailureMutatesNothing ==
    \A task \in Invocations :
        PlanFailed(task) =>
            \A o \in Range(task.ops) : o.op \notin BranchWrites

\* the issue an invocation works for: the argument of start and restart, and
\* the issue of the record found for a CI completion or a scheduled step
IssueOf(task) ==
    IF task.kind \in {"start", "restart"} THEN task.issue_number
    ELSE task.iteration.issue_number

\* the invocations that have run in the step
Acting == Invocations' \ Invocations

\* C39: handlers for one issue or pull request never change a record of a
\* different issue of the repository: every step of start, restart, CI
\* completion and their continuations for issue A leaves every field of the
\* records of every other issue unchanged, and every change of a record is
\* the step of an invocation for that record's issue.
C39_OtherIssuesUntouched ==
    /\ [][\A task \in Acting : \A i \in Ids(records) :
             records[i].issue_number # IssueOf(task) =>
                 records'[i] = records[i]]_vars
    /\ [][\A i \in Ids(records) :
             records'[i] # records[i] =>
                 \E task \in Acting : IssueOf(task) = records[i].issue_number]_vars

\* a restart of issue 42 has failed that issue's record while issue 43 has a
\* record waiting for CI, which stays as it is
C39_Witness ==
    \E i, j \in Ids(records) : \E t \in TaskIds :
        /\ records[i].issue_number = 42
        /\ records[i].status = FAILED
        /\ ~records[i].is_active
        /\ records[j].issue_number = 43
        /\ records[j].status = WAITING_CI
        /\ records[j].is_active
        /\ tasks[t].kind = "restart"
        /\ tasks[t].issue_number = 42
        /\ tasks[t].forced = i

\* C40: no reachable state has a record in status CANCELLED: start, restart,
\* code generation, CI completion and review only ever set RUNNING,
\* WAITING_CI, REVIEWING, COMPLETED or FAILED.
C40_NeverCancelled ==
    \A i \in Ids(records) :
        /\ records[i].status # CANCELLED
        /\ records[i].status \in {RUNNING, WAITING_CI, REVIEWING, COMPLETED, FAILED}

\* a restart has ended the cycle of a record that waited for CI (the record is
\* FAILED) and the cycle that replaced it is under review
C40_Witness ==
    \E i, j \in Ids(records) :
        /\ i < j
        /\ SameIssue(records[i], records[j])
        /\ records[i].status = FAILED
        /\ records[i].pr_number # 0
        /\ records[i].current_iteration = 1
        /\ ~records[i].is_active
        /\ records[j].status = REVIEWING
        /\ \E t \in TaskIds : tasks[t].kind = "ci" /\ tasks[t].iteration.id = j
====
